---- MODULE Spec2Model ----
(***************************************************************************)
(* Attendance classification and payroll computation of the MSVI employee  *)
(* clock-in system: the attendance page (attendance.js), the kiosk         *)
(* (clock-in.js / clock-in-api.js), the attendance API and the payroll     *)
(* breakdown (compensation-benefits.js), over one Airtable "Attendances"   *)
(* table.                                                                  *)
(*                                                                         *)
(* Numbers: JavaScript doubles are modelled as exact rationals <<n, d>>    *)
(* (IEEE rounding error is not modelled); times of day are minutes since   *)
(* midnight; a calendar date is the day of month of one 30-day month whose *)
(* 1st is a Monday (June 2026).                                            *)
(***************************************************************************)
EXTENDS Integers, Sequences, FiniteSets, Bags, TLC

(* ------------------------------ bounds --------------------------------- *)
\* cap on the number of rows the Attendances table may hold
MaxRecords == 2

(* --------------------------- exact rationals --------------------------- *)
Abs(n) == IF n < 0 THEN -n ELSE n

RECURSIVE Gcd(_, _)
Gcd(a, b) == IF b = 0 THEN a ELSE Gcd(b, a % b)

\* the normalised fraction n/d, d # 0
Rat(n, d) ==
  LET s == IF d < 0 THEN -1 ELSE 1
      g == Gcd(Abs(n), Abs(d))
  IN  <<(s * n) \div g, (s * d) \div g>>

RInt(n) == <<n, 1>>
RZero == <<0, 1>>
RAdd(a, b) == Rat(a[1] * b[2] + b[1] * a[2], a[2] * b[2])
RSub(a, b) == Rat(a[1] * b[2] - b[1] * a[2], a[2] * b[2])
RMul(a, b) == Rat(a[1] * b[1], a[2] * b[2])
RDiv(a, b) == Rat(a[1] * b[2], a[2] * b[1])
RLt(a, b) == a[1] * b[2] < b[1] * a[2]
RLe(a, b) == a[1] * b[2] <= b[1] * a[2]
RMax(a, b) == IF RLt(a, b) THEN b ELSE a
RMin(a, b) == IF RLt(a, b) THEN a ELSE b

\* Math.round(x * 100) / 100 : Math.round rounds half up
Round2(x) == Rat((200 * x[1] + x[2]) \div (2 * x[2]), 100)

(* ------------------------- calendar and times -------------------------- *)
\* number of days of the modelled month
MonthDays == 30

\* number of days of the month that follows it (July 2026); a date beyond
\* MonthDays is a day of that month
NextMonthDays == 31

\* Date.getDay(): 0 = Sunday ... 6 = Saturday; day 1 is a Monday
getDay(d) == d % 7

\* Date.getDate(): the day of the month
getDate(d) == IF d <= MonthDays THEN d ELSE d - MonthDays

\* a last day of the month that takes every month to have MonthDays days
lastDayOfMonth_fixed(d) == MonthDays

\* new Date(year, month + 1, 0).getDate(): the last day of the month of d
lastDayOfMonth(d) == IF d <= MonthDays THEN MonthDays ELSE NextMonthDays

\* new Date(year, month, 1): the first day of the month of d
monthStart(d) == IF d <= MonthDays THEN 1 ELSE MonthDays + 1

\* an empty time input ('' / null / undefined)
NoTime == -1

Truthy(t) == t # NoTime

(* ------------------------- Employee Directory -------------------------- *)
\* RateType values met in the directory; "" is a row without the field
RateTypes == {"Fixed", "Time-based", "Monthly", ""}

\* String.prototype.toLowerCase on the values above
toLowerCase(s) ==
  CASE s = "Fixed" -> "fixed"
    [] s = "Time-based" -> "time-based"
    [] s = "Monthly" -> "monthly"
    [] OTHER -> s

\* String.prototype.includes on the lower-cased values above
includes(s, w) ==
  \/ s = "fixed" /\ w = "fixed"
  \/ s = "monthly" /\ w = "monthly"
  \/ s = "salary" /\ w = "salary"

\* CoreWorkingHours descriptors: the text after split('-') and trim, each
\* part either a clock time (h, m, period) or text the time regex rejects
\* (period "")
ClockPart(h, m, period) == [h |-> h, m |-> m, period |-> period]
NoDescriptor == << >>
Sched8to5 == <<ClockPart(8, 0, "AM"), ClockPart(5, 0, "PM")>>

\* null as returned by parseTo24hr
NullMinutes == -1

\* parseTo24hr inside getScheduleSpanHours
parseTo24hr(part) ==
  IF part.period \notin {"AM", "PM"} THEN NullMinutes
  ELSE LET h == IF part.period = "PM" /\ part.h # 12 THEN part.h + 12
                ELSE IF part.period = "AM" /\ part.h = 12 THEN 0 ELSE part.h
       IN  h * 60 + part.m

\* null as returned by getScheduleSpanHours
NullSpan == <<-1, 1>>

\* getScheduleSpanHours: span in hours, NullSpan for null
getScheduleSpanHours(coreWorkingHours) ==
  IF coreWorkingHours = NoDescriptor THEN NullSpan
  ELSE IF Len(coreWorkingHours) # 2 THEN NullSpan
  ELSE IF parseTo24hr(coreWorkingHours[1]) = NullMinutes
          \/ parseTo24hr(coreWorkingHours[2]) = NullMinutes THEN NullSpan
  ELSE Rat(parseTo24hr(coreWorkingHours[2]) - parseTo24hr(coreWorkingHours[1]), 60)

Employees == {"E1", "E2"}

\* the leave types that carry a balance (vacationDays, sickDays, personalDays)
LeaveTypes == {"Vacation", "Sick", "Personal"}

\* one directory row
Profile(rt, std, base, cwh) ==
  [rateType |-> rt, employmentType |-> "", standardWorkweekHours |-> std,
   baseSalary |-> base, coreWorkingHours |-> cwh, allowance |-> 1000,
   leaveDays |-> [t \in LeaveTypes |-> IF t = "Sick" THEN 0 ELSE 1]]

\* the directory rows the pay computations are exercised on
Profiles ==
  { Profile(rt, 40, 30000, NoDescriptor) : rt \in RateTypes }
  \cup { Profile("Time-based", 63, 30000, Sched8to5) }


\* employeesMap.get(employeeId): undefined for an id the directory does not
\* hold, whose fields the handlers read as empty
UndefinedEmployee ==
  [rateType |-> "", employmentType |-> "", standardWorkweekHours |-> 0,
   baseSalary |-> 0, coreWorkingHours |-> NoDescriptor, allowance |-> 0]

employeesMapGet(dir, employeeId) ==
  IF employeeId \in DOMAIN dir THEN dir[employeeId] ELSE UndefinedEmployee

(* ------------------------- pure computations --------------------------- *)
\* the four punches of a form or of a stored row
Punches(inAM, outAM, inPM, outPM) ==
  [timeInAM |-> inAM, timeOutAM |-> outAM, timeInPM |-> inPM, timeOutPM |-> outPM]

\* isFixed of attendance.js (and isFixedRate of clock-in-api.js)
isFixedRate(emp) ==
  LET rateType == toLowerCase(emp.rateType)
      empType  == toLowerCase(emp.employmentType)
  IN  includes(rateType, "fixed") \/ includes(rateType, "monthly")
      \/ includes(rateType, "salary") \/ includes(empType, "fixed")

\* employee.standardWorkweekHours || 40
StdWeek(emp) == IF emp.standardWorkweekHours = 0 THEN 40 ELSE emp.standardWorkweekHours

\* calculateHourlyRate: (baseSalary / 30) / (standardWorkweekHours / 7)
calculateHourlyRate(emp) ==
  IF emp.baseSalary = 0 THEN RZero
  ELSE RDiv(Rat(emp.baseSalary, 30), Rat(StdWeek(emp), 7))

\* totalMinutes of the add, edit and batch handlers: out - in per session
FormMinutes(p) ==
  (IF Truthy(p.timeInAM) /\ Truthy(p.timeOutAM) THEN p.timeOutAM - p.timeInAM ELSE 0)
  + (IF Truthy(p.timeInPM) /\ Truthy(p.timeOutPM) THEN p.timeOutPM - p.timeInPM ELSE 0)

hasAM(p) == Truthy(p.timeInAM) /\ Truthy(p.timeOutAM)
hasPM(p) == Truthy(p.timeInPM) /\ Truthy(p.timeOutPM)

\* dailyStandardHours of add, edit and the payroll breakdown: one hour less
\* when the schedule span equals the weekly-derived standard and exceeds 8
hasLunchAdjustment(emp) ==
  LET scheduleSpan == getScheduleSpanHours(emp.coreWorkingHours)
      dailyFromWeekly == Rat(StdWeek(emp), 7)
  IN  scheduleSpan # NullSpan /\ scheduleSpan = dailyFromWeekly /\ RLt(RInt(8), scheduleSpan)

AdjustedDailyStandard(emp) ==
  IF hasLunchAdjustment(emp) THEN RSub(Rat(StdWeek(emp), 7), RInt(1))
  ELSE Rat(StdWeek(emp), 7)

\* overtimeHours = isFixed ? 0 : Math.max(0, totalHoursWorked - dailyStandardHours)
FormOvertimeHours(isFixed, totalHoursWorked, dailyStandardHours) ==
  IF isFixed THEN RZero ELSE RMax(RZero, RSub(totalHoursWorked, dailyStandardHours))

\* overTimePay of the add, edit and batch handlers
FormOverTimePay(isFixed, overtimeHours, emp) ==
  IF ~isFixed /\ RLt(RZero, overtimeHours)
  THEN RMul(RMul(overtimeHours, calculateHourlyRate(emp)), Rat(5, 4))
  ELSE RZero

\* isDoublePay of add and edit: the checkbox, forced false for Fixed
FormIsDoublePay(isFixed, checked) == IF isFixed THEN FALSE ELSE checked

\* attendanceData of handleAddAttendanceSubmit / handleEditAttendanceSubmit
AttendanceData(emp, employeeId, date, p, checked, leaveType) ==
  LET totalHoursWorked == Rat(FormMinutes(p), 60)
      isFixed == isFixedRate(emp)
      overtimeHours == FormOvertimeHours(isFixed, totalHoursWorked, AdjustedDailyStandard(emp))
  IN  [EmployeeId |-> employeeId, Date |-> date,
       TimeInAM |-> p.timeInAM, TimeOutAM |-> p.timeOutAM,
       TimeInPM |-> p.timeInPM, TimeOutPM |-> p.timeOutPM,
       TotalHoursWorked |-> totalHoursWorked,
       OvertimeHours |-> overtimeHours,
       OverTimePay |-> FormOverTimePay(isFixed, overtimeHours, emp),
       IsDoublePay |-> FormIsDoublePay(isFixed, checked),
       LeaveType |-> IF leaveType = "None" THEN "" ELSE leaveType]

\* attendanceData of handleBatchAddSubmit for one preview date
BatchAttendanceData(emp, employeeId, dateInfo, p, doublePaySunday) ==
  LET dailyStandardHours == Rat(StdWeek(emp), 7)
      scheduleSpan == getScheduleSpanHours(emp.coreWorkingHours)
      raw == FormMinutes(p)
      addLunch == /\ hasAM(p) /\ hasPM(p)
                  /\ scheduleSpan # NullSpan /\ scheduleSpan # RZero
                  /\ RLe(dailyStandardHours, scheduleSpan)
                  /\ RLt(Rat(raw, 60), dailyStandardHours)
      totalHoursWorked == Rat(IF addLunch THEN raw + 60 ELSE raw, 60)
      isFixed == isFixedRate(emp)
      overtimeHours == FormOvertimeHours(isFixed, totalHoursWorked, dailyStandardHours)
  IN  [EmployeeId |-> employeeId, Date |-> dateInfo.date,
       TimeInAM |-> p.timeInAM, TimeOutAM |-> p.timeOutAM,
       TimeInPM |-> p.timeInPM, TimeOutPM |-> p.timeOutPM,
       TotalHoursWorked |-> totalHoursWorked,
       OvertimeHours |-> overtimeHours,
       OverTimePay |-> FormOverTimePay(isFixed, overtimeHours, emp),
       IsDoublePay |-> IF isFixed THEN FALSE ELSE (doublePaySunday /\ dateInfo.dayOfWeek = 0),
       LeaveType |-> ""]

(* ------------------------ kiosk computations --------------------------- *)
\* getEmployeeById of clock-in-api.js: the directory row as the kiosk maps it
getEmployeeById(row) ==
  [row EXCEPT !.standardWorkweekHours = IF @ = 0 THEN 40 ELSE @]

\* calculateTotalHours: a session counts only when its time-out is after its time-in
ClockMinutes(p) ==
  (IF Truthy(p.timeInAM) /\ Truthy(p.timeOutAM) /\ p.timeOutAM > p.timeInAM
   THEN p.timeOutAM - p.timeInAM ELSE 0)
  + (IF Truthy(p.timeInPM) /\ Truthy(p.timeOutPM) /\ p.timeOutPM > p.timeInPM
     THEN p.timeOutPM - p.timeInPM ELSE 0)

calculateTotalHours(p) == Rat(ClockMinutes(p), 60)

\* calculateOvertimeFields; found is FALSE when getEmployeeById returned null
calculateOvertimeFields(totalHours, employee, found) ==
  LET standardDailyHours == IF found THEN Rat(employee.standardWorkweekHours, 7) ELSE RInt(8)
      overtimeHours == RMax(RZero, RSub(totalHours, standardDailyHours))
      pay == IF found /\ employee.baseSalary > 0 /\ RLt(RZero, overtimeHours)
             THEN Round2(RMul(RMul(overtimeHours, calculateHourlyRate(employee)), Rat(5, 4)))
             ELSE RZero
  IN  IF found /\ isFixedRate(employee)
      THEN [TotalHoursWorked |-> Round2(totalHours), OvertimeHours |-> RZero, OverTimePay |-> RZero]
      ELSE [TotalHoursWorked |-> Round2(totalHours), OvertimeHours |-> Round2(overtimeHours),
            OverTimePay |-> pay]

\* the punch fields of a stored row, with one slot replaced (fullRecord)
RowPunches(r) == Punches(r.TimeInAM, r.TimeOutAM, r.TimeInPM, r.TimeOutPM)

ActionTypes == {"TimeInAM", "TimeOutAM", "TimeInPM", "TimeOutPM"}

SetSlot(r, actionType, timeValue) ==
  CASE actionType = "TimeInAM" -> [r EXCEPT !.TimeInAM = timeValue]
    [] actionType = "TimeOutAM" -> [r EXCEPT !.TimeOutAM = timeValue]
    [] actionType = "TimeInPM" -> [r EXCEPT !.TimeInPM = timeValue]
    [] OTHER -> [r EXCEPT !.TimeOutPM = timeValue]

GetSlot(r, actionType) ==
  CASE actionType = "TimeInAM" -> r.TimeInAM
    [] actionType = "TimeOutAM" -> r.TimeOutAM
    [] actionType = "TimeInPM" -> r.TimeInPM
    [] OTHER -> r.TimeOutPM

\* a row with only its key: what createAttendanceRecord posts before the punch
BlankRow(employeeId, date) ==
  [EmployeeId |-> employeeId, Date |-> date,
   TimeInAM |-> NoTime, TimeOutAM |-> NoTime, TimeInPM |-> NoTime, TimeOutPM |-> NoTime,
   TotalHoursWorked |-> RZero, OvertimeHours |-> RZero, OverTimePay |-> RZero,
   IsDoublePay |-> FALSE, LeaveType |-> ""]

\* fields PATCHed by updateAttendanceRecord onto the row currentRecord
updateAttendanceRecordFields(currentRecord, actionType, timeValue, employee, found) ==
  LET punched == SetSlot(currentRecord, actionType, timeValue)
      totalHours == calculateTotalHours(RowPunches(punched))
      ot == calculateOvertimeFields(totalHours, employee, found)
  IN  IF actionType \in {"TimeOutAM", "TimeOutPM"} /\ RLt(RZero, totalHours)
      THEN [punched EXCEPT !.TotalHoursWorked = ot.TotalHoursWorked,
                           !.OvertimeHours = ot.OvertimeHours,
                           !.OverTimePay = ot.OverTimePay]
      ELSE punched

\* fields POSTed by createAttendanceRecord: the total of a lone punch is 0,
\* so no hour fields are attached
createAttendanceRecordFields(employeeId, date, actionType, timeValue) ==
  SetSlot(BlankRow(employeeId, date), actionType, timeValue)

(* ------------------------- status badges (kiosk) ----------------------- *)
\* getDisplayHours: the stored total, plus the lunch hour when both sessions
\* are worked, the schedule spans 10 hours and the total is about 9
getDisplayHours(fields, employee) ==
  LET totalHoursWorked == fields.TotalHoursWorked
      hasAMSession == Truthy(fields.TimeInAM) /\ Truthy(fields.TimeOutAM)
      hasPMSession == Truthy(fields.TimeInPM) /\ Truthy(fields.TimeOutPM)
  IN  IF ~hasAMSession \/ ~hasPMSession THEN totalHoursWorked
      ELSE IF /\ getScheduleSpanHours(employee.coreWorkingHours) = RInt(10)
              /\ RLe(Rat(89, 10), totalHoursWorked) /\ RLe(totalHoursWorked, Rat(91, 10))
      THEN RAdd(totalHoursWorked, RInt(1))
      ELSE totalHoursWorked

\* the badge of a record whose leave is none, by the thresholds both copies of
\* getAttendanceStatusBadge share: one complete session
HalfDayBadge(totalHours, dailyStd) ==
  IF RLt(totalHours, Rat(1, 2)) THEN "Invalid"
  ELSE IF RLt(totalHours, RMul(RDiv(dailyStd, RInt(2)), Rat(3, 4))) THEN "Short Hours"
  ELSE "Half Day"

\* getAttendanceStatusBadge of the kiosk with the live states of today
\* (part_003); today is the date the badge is rendered on
getAttendanceStatusBadge(fields, employee, today) ==
  LET timeInAM == Truthy(fields.TimeInAM)
      timeOutAM == Truthy(fields.TimeOutAM)
      timeInPM == Truthy(fields.TimeInPM)
      timeOutPM == Truthy(fields.TimeOutPM)
      totalHours == getDisplayHours(fields, employee)
      dailyStd == Rat(StdWeek(employee), 7)
      tol == Rat(1, 100)
      hasAMSession == timeInAM /\ timeOutAM
      hasPMSession == timeInPM /\ timeOutPM
  IN  IF fields.LeaveType \notin {"", "None"} THEN "On Leave"
      ELSE IF fields.Date = today
      THEN (IF timeInAM /\ timeOutAM /\ timeInPM /\ timeOutPM THEN "Present"
            ELSE IF timeInPM /\ ~timeOutPM THEN "Working"
            ELSE IF timeInAM /\ timeOutAM /\ ~timeInPM THEN "At Lunch"
            ELSE IF timeInAM /\ ~timeOutAM THEN "Working"
            ELSE IF ~timeInAM /\ ~timeOutAM /\ timeInPM /\ timeOutPM
            THEN HalfDayBadge(totalHours, dailyStd)
            ELSE IF timeInAM \/ timeInPM THEN "In Progress"
            ELSE "No Record")
      ELSE IF ~hasAMSession /\ ~hasPMSession /\ ~timeInAM /\ ~timeOutAM
              /\ ~timeInPM /\ ~timeOutPM THEN "Absent"
      ELSE IF hasAMSession /\ hasPMSession
      THEN (IF RLt(totalHours, RSub(dailyStd, tol)) THEN "Short Hours"
            ELSE IF RLt(RAdd(dailyStd, tol), totalHours) THEN "Overtime"
            ELSE "Present")
      ELSE IF hasAMSession \/ hasPMSession THEN HalfDayBadge(totalHours, dailyStd)
      ELSE IF timeInAM \/ timeOutAM \/ timeInPM \/ timeOutPM THEN "Incomplete"
      ELSE "Absent"

\* getAttendanceStatusBadge of the kiosk without the live states (part_002)
getAttendanceStatusBadgePlain(fields, employee, today) ==
  LET hasAMSession == Truthy(fields.TimeInAM) /\ Truthy(fields.TimeOutAM)
      hasPMSession == Truthy(fields.TimeInPM) /\ Truthy(fields.TimeOutPM)
      totalHours == fields.TotalHoursWorked
      dailyStd == Rat(StdWeek(employee), 7)
      tol == Rat(1, 100)
  IN  IF fields.LeaveType \notin {"", "None"} THEN "On Leave"
      ELSE IF ~hasAMSession /\ ~hasPMSession
      THEN (IF fields.Date = today /\ (Truthy(fields.TimeInAM) \/ Truthy(fields.TimeInPM))
            THEN "In Progress" ELSE "Absent")
      ELSE IF hasAMSession # hasPMSession
      THEN (IF fields.Date = today THEN "In Progress"
            ELSE HalfDayBadge(totalHours, dailyStd))
      ELSE IF RLt(totalHours, RSub(dailyStd, tol)) THEN "Short Hours"
      ELSE IF RLt(RAdd(dailyStd, tol), totalHours) THEN "Overtime"
      ELSE "Present"

(* --------------------- payroll breakdown (pure part) -------------------- *)
(* ------------------- monthly attendance view (pure part) --------------- *)
\* getStatus of renderAttendanceModal: the status column of one record, with
\* the daily standard of weekly hours / 7; leave is not read
getStatus(r, employee) ==
  LET am == Truthy(r.TimeInAM) /\ Truthy(r.TimeOutAM)
      pm == Truthy(r.TimeInPM) /\ Truthy(r.TimeOutPM)
      total == r.TotalHoursWorked
      daily == Rat(StdWeek(employee), 7)
      tol == Rat(1, 100)
  IN  IF ~am /\ ~pm THEN "Absent"
      ELSE IF am # pm
           THEN (IF RLt(total, Rat(1, 2)) THEN "Invalid"
                 ELSE IF RLt(total, RMul(RDiv(daily, RInt(2)), Rat(3, 4))) THEN "Undertime"
                 ELSE "Half Day")
      ELSE IF RLt(total, RZero) THEN "Invalid"
      ELSE IF RLt(total, RSub(daily, tol)) THEN "Undertime"
      ELSE IF RLt(RAdd(daily, tol), total) THEN "Overtime"
      ELSE "Present"

\* regularPay of one row of renderAttendanceModal: by the sessions punched for
\* a fixed employee, by the capped hours otherwise
regularPay(r, employee) ==
  LET fixedDailyRate == Rat(employee.baseSalary, 30)
      am == Truthy(r.TimeInAM) /\ Truthy(r.TimeOutAM)
      pm == Truthy(r.TimeInPM) /\ Truthy(r.TimeOutPM)
  IN  IF isFixedRate(employee)
      THEN (IF ~am /\ ~pm THEN RZero
            ELSE IF am # pm THEN RDiv(fixedDailyRate, RInt(2))
            ELSE fixedDailyRate)
      ELSE RMul(RMin(r.TotalHoursWorked, Rat(StdWeek(employee), 7)), calculateHourlyRate(employee))

\* allEmployeesForComp mapping: a row without RateType is taken as 'Fixed'
CompEmployee(row) ==
  [row EXCEPT !.rateType = IF @ = "" THEN "Fixed" ELSE @,
              !.standardWorkweekHours = IF @ = 0 THEN 40 ELSE @]

\* isFixedRate of loadBreakdownAttendance: (rateType || 'Time-based') === 'Fixed'
BreakdownIsFixed(empData) ==
  (IF empData.rateType = "" THEN "Time-based" ELSE empData.rateType) = "Fixed"

\* fetchAttendanceForEmployee: rows of the employee dated within [startDate, endDate]
\* (the FIND() match on EmployeeId is equality on the ids used here)
fetchAttendanceForEmployee(table, employeeId, startDate, endDate) ==
  { r \in table : r.EmployeeId = employeeId /\ r.Date >= startDate /\ r.Date <= endDate }

\* status of one row as loadBreakdownAttendance derives it
BreakdownStatus(fields, dailyStandardHours) ==
  LET am == Truthy(fields.TimeInAM) /\ Truthy(fields.TimeOutAM)
      pm == Truthy(fields.TimeInPM) /\ Truthy(fields.TimeOutPM)
      total == fields.TotalHoursWorked
      minHoursForHalfDay == RMul(RDiv(dailyStandardHours, RInt(2)), Rat(3, 4))
      minHoursForValid == Rat(1, 2)
      tol == Rat(1, 100)
  IN  IF ~am /\ ~pm THEN "Absent"
      ELSE IF am # pm
           THEN (IF RLt(total, minHoursForValid) THEN "Invalid"
                 ELSE IF RLt(total, minHoursForHalfDay) THEN "Undertime"
                 ELSE "Half Day")
      ELSE IF RLt(total, RZero) THEN "Invalid"
      ELSE IF RLt(total, RSub(dailyStandardHours, tol)) THEN "Undertime"
      ELSE IF RLt(RAdd(dailyStandardHours, tol), total) THEN "Overtime"
      ELSE "Present"

\* statuses whose hours and pay enter the period totals
CountedStatuses == {"Present", "Late", "Overtime", "Undertime", "Half Day"}

\* the per-row figures of the rows.map callback of loadBreakdownAttendance
BreakdownDay(fields, empData) ==
  LET isFixed == BreakdownIsFixed(empData)
      dailyRate == Rat(empData.baseSalary, 30)
      dailyStandardHours == AdjustedDailyStandard(empData)
      hourlyRate == IF RLt(RZero, dailyStandardHours) THEN RDiv(dailyRate, dailyStandardHours) ELSE RZero
      overtimeRate == IF isFixed THEN RZero ELSE RMul(hourlyRate, Rat(5, 4))
      status == BreakdownStatus(fields, dailyStandardHours)
      am == Truthy(fields.TimeInAM) /\ Truthy(fields.TimeOutAM)
      pm == Truthy(fields.TimeInPM) /\ Truthy(fields.TimeOutPM)
      regHours == IF isFixed
                  THEN (IF ~am /\ ~pm THEN RZero
                        ELSE IF am # pm THEN RDiv(dailyStandardHours, RInt(2))
                        ELSE dailyStandardHours)
                  ELSE RMin(fields.TotalHoursWorked, dailyStandardHours)
      regPay == IF isFixed
                THEN (IF status \in {"Absent", "Invalid"} THEN RZero
                      ELSE IF status = "Half Day" THEN RDiv(dailyRate, RInt(2))
                      ELSE dailyRate)
                ELSE RMul(regHours, hourlyRate)
      otHours == fields.OvertimeHours
      otPay == IF isFixed THEN RZero ELSE RMul(otHours, overtimeRate)
  IN  [id |-> fields.id, date |-> fields.Date, status |-> status,
       regHours |-> regHours, regPay |-> regPay, otHours |-> otHours, otPay |-> otPay,
       isDoublePay |-> fields.IsDoublePay,
       dayDoublePay |-> IF fields.IsDoublePay THEN regPay ELSE RZero,
       counted |-> status \in CountedStatuses]

\* the figure of one day that a total accumulates
DayFigure(d, field) ==
  CASE field = "regHours" -> d.regHours
    [] field = "regPay" -> d.regPay
    [] field = "otHours" -> d.otHours
    [] field = "otPay" -> d.otPay
    [] OTHER -> d.dayDoublePay

\* least common multiple of a set of positive integers
RECURSIVE Lcm(_)
Lcm(ns) ==
  IF ns = {} THEN 1
  ELSE LET n == CHOOSE x \in ns : TRUE
           rest == Lcm(ns \ {n})
       IN  (n * rest) \div Gcd(n, rest)

\* total of one figure over a set of per-row figures: the numerators are
\* added over the common denominator
SumDays(days, field) ==
  LET den == Lcm({ DayFigure(d, field)[2] : d \in days })
      scaled(d) == DayFigure(d, field)[1] * (den \div DayFigure(d, field)[2])
      plus == BagCardinality([d \in { x \in days : scaled(x) > 0 } |-> scaled(d)])
      minus == BagCardinality([d \in { x \in days : scaled(x) < 0 } |-> 0 - scaled(d)])
  IN  Rat(plus - minus, den)

\* Monday-Saturday days within [startDate, endDate]
expectedWorkingDaysIn(startDate, endDate) ==
  Cardinality({ d \in startDate..endDate : getDay(d) >= 1 /\ getDay(d) <= 6 })

\* the Status column read by the 1st-cut check: no writer of this program
\* sets it, so it reads as undefined
StatusColumn(r) == ""

\* has1stCutPerfect of loadBreakdownAttendance (the fetch succeeded) for a
\* period ending on endDate
FirstCutPerfect(table, employeeId, endDate) ==
  LET firstCutStart == monthStart(endDate)
      firstCutEnd == monthStart(endDate) + 14
      firstCutRecords == fetchAttendanceForEmployee(table, employeeId, firstCutStart, firstCutEnd)
      firstCutAbsents == Cardinality({ r \in firstCutRecords : StatusColumn(r) \in {"Absent", "absent"} })
      firstCutInvalid == Cardinality({ r \in firstCutRecords : StatusColumn(r) \in {"Invalid", "invalid"} })
      firstCutDays == Cardinality(firstCutRecords)
  IN  IF firstCutRecords # {}
      THEN firstCutAbsents = 0 /\ firstCutInvalid = 0
           /\ firstCutDays >= expectedWorkingDaysIn(firstCutStart, firstCutEnd)
      ELSE FALSE

\* unused personal leave of the month: one allowed, less the Personal leaves of
\* the period and, on the 2nd cut, of the 1st cut (the fetch succeeded)
unusedPersonalLeave(table, employeeId, startDate, endDate) ==
  LET personal(s, e) == Cardinality({ r \in fetchAttendanceForEmployee(table, employeeId, s, e) :
                                        r.LeaveType = "Personal" })
      used == personal(startDate, endDate)
                + personal(monthStart(endDate), monthStart(endDate) + 14)
  IN  IF getDate(endDate) >= 16 THEN (IF used >= 1 THEN 0 ELSE 1 - used) ELSE 0

\* window.GovContributions.calculateAllContributions: per-scheme employee and
\* employer amounts and the withholding tax; the applied amounts are those of
\* the cutoff ('1st': none of SSS, PhilHealth, Pag-IBIG)
calculateAllContributions(params) ==
  LET sss == [employee |-> RMul(params.earnedBasicSalary, Rat(1, 20)),
              employer |-> RMul(params.earnedBasicSalary, Rat(1, 10))]
      philHealth == [employee |-> RMul(RInt(params.contractBasicSalary), Rat(1, 40)),
                     employer |-> RMul(RInt(params.contractBasicSalary), Rat(1, 40))]
      pagIbig == [employee |-> IF params.contractBasicSalary > 0 THEN RInt(100) ELSE RZero,
                  employer |-> IF params.contractBasicSalary > 0 THEN RInt(100) ELSE RZero]
      none == [employee |-> RZero, employer |-> RZero]
      taxable == RAdd(params.earnedBasicSalary, params.overtimePay)
  IN  [sss |-> sss, philHealth |-> philHealth, pagIbig |-> pagIbig,
       appliedSSS |-> IF params.cutoff = "1st" THEN none ELSE sss,
       appliedPhilHealth |-> IF params.cutoff = "1st" THEN none ELSE philHealth,
       appliedPagIbig |-> IF params.cutoff = "1st" THEN none ELSE pagIbig,
       bir |-> [tax |-> RMul(taxable, Rat(1, 10))]]

\* Number.prototype.toFixed(2) as the breakdown displays an amount
toFixed2(x) == IF x[1] < 0 THEN RSub(RZero, Round2(RSub(RZero, x))) ELSE Round2(x)

(* ------------------------------- state --------------------------------- *)
VARIABLES
  directory,           \* Employee Directory: employeeId -> row
  store,               \* Attendances table: set of rows, each with its record id
  nextId,              \* next record id the table hands out
  pc,                  \* attendance page: position of the handler in flight, per caller
  loc,                 \* attendance page: locals of the handler in flight, per caller
  batchPreviewDates,   \* attendance page: batch form employee and preview list, per caller
  batchAddCancelled,   \* attendance page: cancellation flag of batch add, per caller
  batchProgressShown,  \* attendance page: batchProgressSection is displayed, per caller
  bulkDeleteCancelled, \* attendance page: cancellation flag of bulk delete, per caller
  bulkProgressShown,   \* attendance page: bulkDeleteProgressSection is displayed, per caller
  notice,              \* attendance page: the last notification or modal shown, per caller
  now,                 \* kiosk wall clock (minutes since midnight)
  isSaving,            \* kiosk: save-in-progress flag
  kpc,                 \* kiosk: position of each invocation of saveClockRecord
  kloc,                \* kiosk: locals of each invocation of saveClockRecord
  knotice,             \* kiosk: the last modal or notification shown
  calculatedData,      \* payroll: currentBreakdownContext.calculatedData
  govContributionsLoaded,      \* payroll: window.GovContributions is defined
  sssContributionRecords,      \* SSSContributionRecords table: employeeId -> EmployeeContribution
  transactions,                \* Advance Ledger: the Salary Advance cash-outs
  excludeAllDeductionsInput,   \* payroll: value of the excludeAllDeductions input
  currentAdvanceDeductionData, \* payroll: outstanding balance and planned deduction
  display,                     \* payroll: the amounts shown in the breakdown summary
  payrollItem,                 \* PayrollItems table: the item created last
  payNotice,                   \* payroll: the last notification shown
  currentBreakdownContext,     \* payroll: the modal's employee and period inputs
  pendingLoads,                \* payroll: loads awaiting the attendance rows
  pendingClose,                \* payroll: the delayed close of a save is due
  leaveDays                    \* HR table: the leave balances of each employee

compVars == <<govContributionsLoaded, sssContributionRecords, transactions,
              excludeAllDeductionsInput, currentAdvanceDeductionData, display,
              payrollItem, payNotice, currentBreakdownContext, pendingLoads, pendingClose>>

payVars == <<compVars, leaveDays>>

vars == <<directory, store, nextId, pc, loc, batchPreviewDates, batchAddCancelled,
          batchProgressShown, bulkDeleteCancelled, bulkProgressShown, notice,
          now, isSaving, kpc, kloc, knotice, calculatedData, payVars>>

batchVars == <<batchPreviewDates, batchAddCancelled, batchProgressShown>>
bulkVars == <<bulkDeleteCancelled, bulkProgressShown>>
kioskVars == <<now, isSaving, kpc, kloc, knotice>>

Callers == {"a", "b"}

\* the invocations of saveClockRecord that may be pending at the same time
Invocations == {1, 2}

\* the instants at which the kiosk clock is read, and the kiosk's local date
KioskClock == <<420, 720, 780, 1080>>
Today == 6

NoLoc == [op |-> "none"]
NoNotice == [type |-> "none"]
NoPreview == [employeeId |-> "", dates |-> << >>]
NoData == [loaded |-> FALSE]
NoAdvance == [outstandingBalance |-> 0, deductionAmount |-> 0]
NoItem == [saved |-> FALSE]
NoEffective == [set |-> FALSE]

\* the breakdown summary before anything is shown in it
BlankDisplay ==
  [totalEarnings |-> RZero, sss |-> RZero, philHealth |-> RZero, pagIbig |-> RZero,
   withholdingTax |-> RZero, govtTotal |-> RZero, advanceDeduction |-> RZero,
   totalDeductions |-> RZero, netPay |-> RZero]

\* the directory the record-creation and batch specifications run on
FixedDirectory ==
  [e \in Employees |->
     IF e = "E1" THEN Profile("Time-based", 40, 30000, NoDescriptor)
     ELSE Profile("Fixed", 40, 30000, NoDescriptor)]

\* the services of the payroll page: the calculator module, the SSS table and
\* the ledger
InitServices(loaded, sssTable, ledger) ==
  /\ govContributionsLoaded = loaded
  /\ sssContributionRecords = sssTable
  /\ transactions = ledger
  /\ excludeAllDeductionsInput = FALSE
  /\ currentAdvanceDeductionData = NoAdvance
  /\ display = BlankDisplay
  /\ payrollItem = NoItem
  /\ payNotice = NoNotice
  /\ currentBreakdownContext = [employeeId |-> "", startDate |-> 0, endDate |-> 0]
  /\ pendingLoads = {}
  /\ pendingClose = FALSE

InitTables(dir, table) ==
  /\ directory = dir
  /\ leaveDays = [e \in DOMAIN dir |-> dir[e].leaveDays]
  /\ store = table
  /\ nextId = Cardinality(table) + 1
  /\ pc = [c \in Callers |-> "idle"]
  /\ loc = [c \in Callers |-> NoLoc]
  /\ batchPreviewDates = [c \in Callers |-> NoPreview]
  /\ batchAddCancelled = [c \in Callers |-> FALSE]
  /\ batchProgressShown = [c \in Callers |-> FALSE]
  /\ bulkDeleteCancelled = [c \in Callers |-> FALSE]
  /\ bulkProgressShown = [c \in Callers |-> FALSE]
  /\ notice = [c \in Callers |-> NoNotice]
  /\ now = KioskClock[1]
  /\ isSaving = FALSE
  /\ kpc = [i \in Invocations |-> "idle"]
  /\ kloc = [i \in Invocations |-> NoLoc]
  /\ knotice = NoNotice
  /\ calculatedData = NoData

\* the calculator module is loaded, no SSS record and no advance exists
InitWith(dir, table) == InitTables(dir, table) /\ InitServices(TRUE, << >>, {})

Init == InitWith(FixedDirectory, {})

(* --------------------------- Attendances table -------------------------- *)
\* getByEmployeeAndDate / exists of the attendance API
getByEmployeeAndDate(table, employeeId, date) ==
  { r \in table : r.EmployeeId = employeeId /\ r.Date = date }

exists(table, employeeId, date) == getByEmployeeAndDate(table, employeeId, date) # {}

\* an add that refuses a second row for an employee and date
add_unique(table, id, attendance) ==
  IF \E r \in table : r.EmployeeId = attendance.EmployeeId /\ r.Date = attendance.Date
  THEN table
  ELSE table \cup { [id |-> id] @@ attendance }

\* add of the attendance API when the POST succeeds: a new row with a fresh id
add(table, id, attendance) == table \cup { [id |-> id] @@ attendance }

\* update of the attendance API: PATCH of the row id, nothing when it is gone
update(table, id, attendance) ==
  { IF r.id = id THEN [id |-> id] @@ attendance ELSE r : r \in table }

\* remove of the attendance API when the DELETE succeeds
remove(table, id) == { r \in table : r.id # id }

\* the leave fields the add, edit and delete handlers put into updateData:
\* the old leave type is refunded and the new one deducted, each from the
\* balance held by the employeesMap row, and nothing when the employee is not
\* in the map or the type did not change
LeaveUpdate(dir, employeeId, oldLeaveType, leaveType) ==
  LET changed == { t \in LeaveTypes :
                     /\ employeeId \in DOMAIN dir
                     /\ oldLeaveType # leaveType
                     /\ \/ t = oldLeaveType
                        \/ t = leaveType /\ dir[employeeId].leaveDays[t] > 0 }
  IN  [t \in changed |-> IF t = oldLeaveType THEN dir[employeeId].leaveDays[t] + 1
                         ELSE dir[employeeId].leaveDays[t] - 1]

\* hrApiUpdate of the leave fields: not called for an empty updateData, and a
\* failing request is logged and otherwise ignored
hrApiUpdate(employeeId, updateData) ==
  \E hrOk \in BOOLEAN :
    leaveDays' = IF hrOk /\ DOMAIN updateData # {}
                 THEN [leaveDays EXCEPT ![employeeId] = updateData @@ @]
                 ELSE leaveDays

(* ----------------------- handleAddAttendanceSubmit ---------------------- *)
\* from the submit to the answer of the existence check
AddCheck(c, employeeId, date, p, checked, leaveType) ==
  /\ pc[c] = "idle"
  /\ IF exists(store, employeeId, date)
     THEN /\ notice' = [notice EXCEPT ![c] = [type |-> "DuplicateRecord"]]
          /\ UNCHANGED <<pc, loc>>
     ELSE /\ pc' = [pc EXCEPT ![c] = "addCreate"]
          /\ loc' = [loc EXCEPT ![c] =
                       [op |-> "add",
                        data |-> AttendanceData(employeesMapGet(directory, employeeId), employeeId, date,
                                                p, checked, leaveType)]]
          /\ notice' = [notice EXCEPT ![c] = NoNotice]
  /\ UNCHANGED <<directory, store, nextId, batchVars, bulkVars, kioskVars, calculatedData, payVars>>

\* the POST of the new row and its outcome
AddCreate(c) ==
  /\ pc[c] = "addCreate"
  /\ \E ok \in BOOLEAN :
       IF ok
       THEN /\ nextId <= MaxRecords
            /\ store' = add(store, nextId, loc[c].data)
            /\ nextId' = nextId + 1
            /\ notice' = [notice EXCEPT ![c] = [type |-> "success", text |-> "added"]]
            /\ hrApiUpdate(loc[c].data.EmployeeId,
                           LeaveUpdate(directory, loc[c].data.EmployeeId, "",
                                       loc[c].data.LeaveType))
       ELSE /\ notice' = [notice EXCEPT ![c] = [type |-> "error", text |-> "Failed to add"]]
            /\ UNCHANGED <<store, nextId, leaveDays>>
  /\ pc' = [pc EXCEPT ![c] = "idle"]
  /\ loc' = [loc EXCEPT ![c] = NoLoc]
  /\ UNCHANGED <<directory, batchVars, bulkVars, kioskVars, calculatedData, compVars>>

(* ---------------------- handleEditAttendanceSubmit ---------------------- *)
\* from the submit to the answer of getAll: the duplicate-date check
EditCheck(c, attendanceId, newDate, p, checked, leaveType) ==
  /\ pc[c] = "idle"
  /\ \E old \in store :
       /\ old.id = attendanceId
       /\ IF \E rec \in store : rec.id # attendanceId /\ rec.EmployeeId = old.EmployeeId
                                  /\ rec.Date = newDate
          THEN /\ notice' = [notice EXCEPT ![c] = [type |-> "warning", text |-> "already exists"]]
               /\ UNCHANGED <<pc, loc>>
          ELSE /\ pc' = [pc EXCEPT ![c] = "editWrite"]
               /\ loc' = [loc EXCEPT ![c] =
                            [op |-> "edit", id |-> attendanceId,
                             oldLeaveType |-> old.LeaveType,
                             data |-> AttendanceData(directory[old.EmployeeId], old.EmployeeId,
                                                     newDate, p, checked, leaveType)]]
               /\ notice' = [notice EXCEPT ![c] = NoNotice]
  /\ UNCHANGED <<directory, store, nextId, batchVars, bulkVars, kioskVars, calculatedData, payVars>>

\* the PATCH of the edited row, then the refund of the old leave type and the
\* deduction of the new one when the leave type changed
EditWrite(c) ==
  /\ pc[c] = "editWrite"
  /\ store' = update(store, loc[c].id, loc[c].data)
  /\ hrApiUpdate(loc[c].data.EmployeeId,
                 LeaveUpdate(directory, loc[c].data.EmployeeId, loc[c].oldLeaveType,
                             loc[c].data.LeaveType))
  /\ notice' = [notice EXCEPT ![c] = [type |-> "success", text |-> "updated"]]
  /\ pc' = [pc EXCEPT ![c] = "idle"]
  /\ loc' = [loc EXCEPT ![c] = NoLoc]
  /\ UNCHANGED <<directory, nextId, batchVars, bulkVars, kioskVars, calculatedData, compVars>>

(* ---------------------------- deleteAttendance -------------------------- *)
\* deleteAttendance: the record is read and removed, and its leave is refunded
\* to the employee; a failing remove leaves everything as it was
DeleteAttendance(c, attendanceToDelete) ==
  /\ pc[c] = "idle"
  /\ \E ok \in BOOLEAN :
       IF ok /\ attendanceToDelete \in { r.id : r \in store }
       THEN \E recordToDelete \in store :
              /\ recordToDelete.id = attendanceToDelete
              /\ store' = remove(store, attendanceToDelete)
              /\ hrApiUpdate(recordToDelete.EmployeeId,
                             LeaveUpdate(directory, recordToDelete.EmployeeId,
                                         recordToDelete.LeaveType, ""))
              /\ notice' = [notice EXCEPT ![c] = [type |-> "success", text |-> "deleted"]]
       ELSE /\ notice' = [notice EXCEPT ![c] = [type |-> "error", text |-> "Failed to delete"]]
            /\ UNCHANGED <<store, leaveDays>>
  /\ UNCHANGED <<directory, nextId, pc, loc, batchVars, bulkVars, kioskVars, calculatedData,
                 compVars>>

(* -------------------------- batch add (attendance.js) ------------------- *)
\* generateBatchPreview with every weekday ticked
GenerateBatchPreview(c, employeeId, startDate, endDate, skipExisting) ==
  /\ pc[c] = "idle"
  /\ startDate <= endDate
  /\ LET existingDates == IF skipExisting
                          THEN { r.Date : r \in { x \in store : x.EmployeeId = employeeId } }
                          ELSE {}
     IN  batchPreviewDates' = [batchPreviewDates EXCEPT ![c] =
           [employeeId |-> employeeId,
            dates |-> [i \in 1..(endDate - startDate + 1) |->
                        [date |-> startDate + i - 1,
                         dayOfWeek |-> getDay(startDate + i - 1),
                         skipped |-> (startDate + i - 1) \in existingDates]]]]
  /\ UNCHANGED <<directory, store, nextId, pc, loc, batchAddCancelled, batchProgressShown,
                 bulkVars, notice, kioskVars, calculatedData, payVars>>

IsToAdd(d) == ~d.skipped

\* handleBatchAddSubmit up to the loop
BatchSubmit(c, p, doublePaySunday) ==
  /\ pc[c] = "idle"
  /\ LET toAdd == SelectSeq(batchPreviewDates[c].dates, IsToAdd)
     IN  IF Len(toAdd) = 0
         THEN /\ notice' = [notice EXCEPT ![c] = [type |-> "warning", text |-> "No records to add"]]
              /\ UNCHANGED <<pc, loc, batchAddCancelled, batchProgressShown>>
         ELSE /\ batchAddCancelled' = [batchAddCancelled EXCEPT ![c] = FALSE]
              /\ batchProgressShown' = [batchProgressShown EXCEPT ![c] = TRUE]
              /\ loc' = [loc EXCEPT ![c] =
                           [op |-> "batchAdd", toAdd |-> toAdd, i |-> 1,
                            employeeId |-> batchPreviewDates[c].employeeId,
                            punches |-> p, doublePaySunday |-> doublePaySunday,
                            successCount |-> 0, errorCount |-> 0]]
              /\ pc' = [pc EXCEPT ![c] = "batchLoop"]
              /\ notice' = [notice EXCEPT ![c] = NoNotice]
  /\ UNCHANGED <<directory, store, nextId, batchPreviewDates, bulkVars, kioskVars, calculatedData, payVars>>

\* closeBatchAddAttendanceModal
closeBatchAddAttendanceModal(c) ==
  /\ batchPreviewDates' = [batchPreviewDates EXCEPT ![c] = NoPreview]
  /\ batchAddCancelled' = [batchAddCancelled EXCEPT ![c] = FALSE]
  /\ batchProgressShown' = [batchProgressShown EXCEPT ![c] = FALSE]

\* the result notification of handleBatchAddSubmit
BatchResult(wasCancelled, successCount, errorCount) ==
  IF wasCancelled
  THEN [type |-> "warning", text |-> "Batch add cancelled", successCount |-> successCount]
  ELSE IF errorCount = 0
  THEN [type |-> "success", text |-> "Successfully added", successCount |-> successCount]
  ELSE [type |-> "warning", text |-> "Added, failed", successCount |-> successCount,
        errorCount |-> errorCount]

\* top of the loop of handleBatchAddSubmit: leave it (end of list or cancellation)
\* and complete, or issue the add of the next date
BatchLoop(c) ==
  /\ pc[c] = "batchLoop"
  /\ IF loc[c].i > Len(loc[c].toAdd) \/ batchAddCancelled[c]
     THEN /\ notice' = [notice EXCEPT ![c] =
                          BatchResult(batchAddCancelled[c], loc[c].successCount, loc[c].errorCount)]
          /\ closeBatchAddAttendanceModal(c)
          /\ pc' = [pc EXCEPT ![c] = "idle"]
          /\ loc' = [loc EXCEPT ![c] = NoLoc]
     ELSE /\ pc' = [pc EXCEPT ![c] = "batchAdd"]
          /\ UNCHANGED <<loc, notice, batchVars>>
  /\ UNCHANGED <<directory, store, nextId, bulkVars, kioskVars, calculatedData, payVars>>

\* the add of one date completes or throws
BatchAdd(c) ==
  /\ pc[c] = "batchAdd"
  /\ \E ok \in BOOLEAN :
       IF ok
       THEN /\ nextId <= MaxRecords
            /\ store' = add(store, nextId,
                           BatchAttendanceData(employeesMapGet(directory, loc[c].employeeId), loc[c].employeeId,
                                               loc[c].toAdd[loc[c].i], loc[c].punches,
                                               loc[c].doublePaySunday))
            /\ nextId' = nextId + 1
            /\ loc' = [loc EXCEPT ![c].successCount = @ + 1, ![c].i = @ + 1]
       ELSE /\ loc' = [loc EXCEPT ![c].errorCount = @ + 1, ![c].i = @ + 1]
            /\ UNCHANGED <<store, nextId>>
  /\ pc' = [pc EXCEPT ![c] = "batchLoop"]
  /\ UNCHANGED <<directory, batchVars, bulkVars, notice, kioskVars, calculatedData, payVars>>

\* cancelBatchAddAttendance
CancelBatchAdd(c) ==
  /\ IF batchProgressShown[c]
     THEN /\ batchAddCancelled' = [batchAddCancelled EXCEPT ![c] = TRUE]
          /\ notice' = [notice EXCEPT ![c] = [type |-> "info", text |-> "Cancelling batch add"]]
          /\ UNCHANGED <<batchPreviewDates, batchProgressShown>>
     ELSE /\ closeBatchAddAttendanceModal(c)
          /\ UNCHANGED notice
  /\ UNCHANGED <<directory, store, nextId, pc, loc, bulkVars, kioskVars, calculatedData, payVars>>

\* the close button of the batch modal
CloseBatchAddModal(c) ==
  /\ closeBatchAddAttendanceModal(c)
  /\ UNCHANGED <<directory, store, nextId, pc, loc, bulkVars, notice, kioskVars, calculatedData, payVars>>

(* ------------------------- bulk delete (attendance.js) ------------------ *)
\* the checked rows in list order
RECURSIVE recordsToDelete(_)
recordsToDelete(ids) ==
  IF ids = {} THEN << >>
  ELSE LET m == CHOOSE x \in ids : \A y \in ids : x <= y
       IN  <<m>> \o recordsToDelete(ids \ {m})

\* confirmBulkDeleteAttendance up to the loop
ConfirmBulkDelete(c, selectedAttendanceIds) ==
  /\ pc[c] = "idle"
  /\ selectedAttendanceIds # {}
  /\ selectedAttendanceIds \subseteq { r.id : r \in store }
  /\ bulkDeleteCancelled' = [bulkDeleteCancelled EXCEPT ![c] = FALSE]
  /\ bulkProgressShown' = [bulkProgressShown EXCEPT ![c] = TRUE]
  /\ loc' = [loc EXCEPT ![c] =
               [op |-> "bulkDelete", recordsToDelete |-> recordsToDelete(selectedAttendanceIds),
                i |-> 1, successCount |-> 0, failCount |-> 0]]
  /\ pc' = [pc EXCEPT ![c] = "bulkLoop"]
  /\ notice' = [notice EXCEPT ![c] = NoNotice]
  /\ UNCHANGED <<directory, store, nextId, batchVars, kioskVars, calculatedData, payVars>>

\* the result notification of confirmBulkDeleteAttendance
BulkResult(wasCancelled, successCount, failCount) ==
  IF wasCancelled
  THEN [type |-> "warning", text |-> "Delete cancelled", successCount |-> successCount]
  ELSE IF failCount = 0
  THEN [type |-> "success", text |-> "Successfully deleted", successCount |-> successCount]
  ELSE [type |-> "warning", text |-> "Deleted, failed", successCount |-> successCount,
        failCount |-> failCount]

\* top of the loop of confirmBulkDeleteAttendance
BulkLoop(c) ==
  /\ pc[c] = "bulkLoop"
  /\ IF loc[c].i > Len(loc[c].recordsToDelete) \/ bulkDeleteCancelled[c]
     THEN /\ notice' = [notice EXCEPT ![c] =
                          BulkResult(bulkDeleteCancelled[c], loc[c].successCount, loc[c].failCount)]
          /\ bulkDeleteCancelled' = [bulkDeleteCancelled EXCEPT ![c] = FALSE]
          /\ bulkProgressShown' = [bulkProgressShown EXCEPT ![c] = FALSE]
          /\ pc' = [pc EXCEPT ![c] = "idle"]
          /\ loc' = [loc EXCEPT ![c] = NoLoc]
     ELSE /\ pc' = [pc EXCEPT ![c] = "bulkRemove"]
          /\ UNCHANGED <<loc, notice, bulkVars>>
  /\ UNCHANGED <<directory, store, nextId, batchVars, kioskVars, calculatedData, payVars>>

\* the remove of one record answers ok, answers not ok, or throws
BulkRemove(c) ==
  /\ pc[c] = "bulkRemove"
  /\ LET id == loc[c].recordsToDelete[loc[c].i]
     IN  \E ok \in BOOLEAN :
           IF ok /\ id \in { r.id : r \in store }
           THEN /\ store' = remove(store, id)
                /\ loc' = [loc EXCEPT ![c].successCount = @ + 1, ![c].i = @ + 1]
           ELSE /\ loc' = [loc EXCEPT ![c].failCount = @ + 1, ![c].i = @ + 1]
                /\ UNCHANGED store
  /\ pc' = [pc EXCEPT ![c] = "bulkLoop"]
  /\ UNCHANGED <<directory, nextId, batchVars, bulkVars, notice, kioskVars, calculatedData, payVars>>

\* cancelBulkDeleteAttendance
CancelBulkDelete(c) ==
  /\ IF bulkProgressShown[c]
     THEN /\ bulkDeleteCancelled' = [bulkDeleteCancelled EXCEPT ![c] = TRUE]
          /\ notice' = [notice EXCEPT ![c] = [type |-> "info", text |-> "Cancelling deletion"]]
          /\ UNCHANGED bulkProgressShown
     ELSE /\ bulkDeleteCancelled' = [bulkDeleteCancelled EXCEPT ![c] = FALSE]
          /\ UNCHANGED <<bulkProgressShown, notice>>
  /\ UNCHANGED <<directory, store, nextId, pc, loc, batchVars, kioskVars, calculatedData, payVars>>

(* ------------------------- kiosk (clock-in.js) -------------------------- *)
\* time passes at the kiosk
Tick ==
  /\ \E i \in 1..(Len(KioskClock) - 1) : now = KioskClock[i] /\ now' = KioskClock[i + 1]
  /\ UNCHANGED <<directory, store, nextId, pc, loc, batchVars, bulkVars, notice,
                 isSaving, kpc, kloc, knotice, calculatedData, payVars>>

\* showClockModal: an action button of the kiosk opens the clock modal, which
\* also resets the saving flag
ShowClockModal ==
  /\ isSaving' = FALSE
  /\ UNCHANGED <<directory, store, nextId, pc, loc, batchVars, bulkVars, notice, now,
                 kpc, kloc, knotice, calculatedData, payVars>>

\* invocation i of saveClockRecord up to the request of findTodayRecord
SaveClockRecord(i, employeeId, actionType) ==
  /\ kpc[i] = "idle"
  /\ IF isSaving
     THEN UNCHANGED <<isSaving, kpc, kloc, knotice>>
     ELSE /\ isSaving' = TRUE
          /\ kloc' = [kloc EXCEPT ![i] =
                        [op |-> "clock", employeeId |-> employeeId, actionType |-> actionType,
                         timeValue |-> now, dateValue |-> Today, existingRecord |-> 0]]
          /\ kpc' = [kpc EXCEPT ![i] = "find"]
          /\ knotice' = NoNotice
  /\ UNCHANGED <<directory, store, nextId, pc, loc, batchVars, bulkVars, notice, now,
                 calculatedData, payVars>>

\* findTodayRecord's answer handled without lowering the flag on the
\* duplicate-slot return
FindTodayRecord_flagKept(i) ==
  /\ kpc[i] = "find"
  /\ LET found == getByEmployeeAndDate(store, kloc[i].employeeId, kloc[i].dateValue)
     IN  IF found = {}
         THEN /\ kpc' = [kpc EXCEPT ![i] = "write"]
              /\ UNCHANGED <<isSaving, kloc, knotice>>
         ELSE \E existingRecord \in found :
                IF Truthy(GetSlot(existingRecord, kloc[i].actionType))
                THEN /\ knotice' = [type |-> "DuplicateWarning", id |-> existingRecord.id]
                     /\ kpc' = [kpc EXCEPT ![i] = "idle"]
                     /\ kloc' = [kloc EXCEPT ![i] = NoLoc]
                     /\ UNCHANGED isSaving
                ELSE /\ kloc' = [kloc EXCEPT ![i].existingRecord = existingRecord.id]
                     /\ kpc' = [kpc EXCEPT ![i] = "write"]
                     /\ UNCHANGED <<isSaving, knotice>>
  /\ UNCHANGED <<directory, store, nextId, pc, loc, batchVars, bulkVars, notice, now,
                 calculatedData, payVars>>

\* the answer of findTodayRecord (maxRecords 1: any one matching row) and the
\* slot check on it
FindTodayRecord(i) ==
  /\ kpc[i] = "find"
  /\ LET found == getByEmployeeAndDate(store, kloc[i].employeeId, kloc[i].dateValue)
     IN  IF found = {}
         THEN /\ kpc' = [kpc EXCEPT ![i] = "write"]
              /\ UNCHANGED <<isSaving, kloc, knotice>>
         ELSE \E existingRecord \in found :
                IF Truthy(GetSlot(existingRecord, kloc[i].actionType))
                THEN /\ knotice' = [type |-> "DuplicateWarning", id |-> existingRecord.id]
                     /\ isSaving' = FALSE
                     /\ kpc' = [kpc EXCEPT ![i] = "idle"]
                     /\ kloc' = [kloc EXCEPT ![i] = NoLoc]
                ELSE /\ kloc' = [kloc EXCEPT ![i].existingRecord = existingRecord.id]
                     /\ kpc' = [kpc EXCEPT ![i] = "write"]
                     /\ UNCHANGED <<isSaving, knotice>>
  /\ UNCHANGED <<directory, store, nextId, pc, loc, batchVars, bulkVars, notice, now,
                 calculatedData, payVars>>

\* updateAttendanceRecord or createAttendanceRecord, then the finally block
WriteClockRecord(i) ==
  /\ kpc[i] = "write"
  /\ \E ok \in BOOLEAN, employeeFound \in BOOLEAN :
       IF kloc[i].existingRecord = 0
       THEN IF ok
            THEN /\ employeeFound
                 /\ nextId <= MaxRecords
                 /\ store' = add(store, nextId,
                                createAttendanceRecordFields(kloc[i].employeeId,
                                                             kloc[i].dateValue,
                                                             kloc[i].actionType,
                                                             kloc[i].timeValue))
                 /\ nextId' = nextId + 1
                 /\ knotice' = [type |-> "success"]
            ELSE /\ employeeFound
                 /\ knotice' = [type |-> "error"]
                 /\ UNCHANGED <<store, nextId>>
       ELSE IF ok /\ kloc[i].existingRecord \in { r.id : r \in store }
            THEN /\ \E currentRecord \in store :
                      /\ currentRecord.id = kloc[i].existingRecord
                      /\ store' = update(store, currentRecord.id,
                                         updateAttendanceRecordFields(
                                           currentRecord, kloc[i].actionType,
                                           kloc[i].timeValue,
                                           getEmployeeById(directory[currentRecord.EmployeeId]),
                                           employeeFound))
                 /\ knotice' = [type |-> "success"]
                 /\ UNCHANGED nextId
            ELSE /\ employeeFound
                 /\ knotice' = [type |-> "error"]
                 /\ UNCHANGED <<store, nextId>>
  /\ isSaving' = FALSE
  /\ kpc' = [kpc EXCEPT ![i] = "idle"]
  /\ kloc' = [kloc EXCEPT ![i] = NoLoc]
  /\ UNCHANGED <<directory, pc, loc, batchVars, bulkVars, notice, now, calculatedData, payVars>>

(* --------------------- payroll breakdown (part_004) --------------------- *)
\* fetchSSSEmployeeContribution: the EmployeeContribution of the employee's
\* latest SSS contribution record, 0 when there is none or the request fails
fetchSSSEmployeeContribution(table, employeeId, ok) ==
  IF ok /\ employeeId \in DOMAIN table THEN table[employeeId] ELSE 0

\* the sum of the amounts of a set of ledger transactions
RECURSIVE totalAdvances(_)
totalAdvances(advances) ==
  IF advances = {} THEN 0
  ELSE LET t == CHOOSE x \in advances : TRUE
       IN  t.amount + totalAdvances(advances \ {t})

\* fetchEmployeeAdvances: the Salary Advance cash-outs of the employee dated
\* within the period; a failed request is answered as no advances
fetchEmployeeAdvances(ledger, employeeId, periodStartDate, periodEndDate, ok) ==
  IF ok
  THEN [outstandingBalance |->
          totalAdvances({ t \in ledger : /\ t.employeeId = employeeId
                                          /\ t.date >= periodStartDate
                                          /\ t.date <= periodEndDate })]
  ELSE [outstandingBalance |-> 0]

\* the government contributions of loadBreakdownAttendance
Contributions(calculatorLoaded, sssTableContribution, empData, e, startDate, endDate) ==
  LET periodDays == endDate - startDate + 1
      frequency == IF periodDays <= 16 THEN "semi-monthly" ELSE "monthly"
      cutoff == IF getDate(startDate) <= 15 THEN "1st" ELSE "2nd"
      contributions == calculateAllContributions(
                         [contractBasicSalary |-> empData.baseSalary,
                          earnedBasicSalary |-> e.totalRegPay,
                          overtimePay |-> e.totalOTPay, otherEarnings |-> RZero,
                          deMinimis |-> e.allowance, bonuses |-> e.bonuses,
                          frequency |-> frequency, cutoff |-> cutoff])
  IN  IF calculatorLoaded
      THEN [cutoff |-> cutoff, frequency |-> frequency,
            sssContribution |-> contributions.appliedSSS.employee,
            philHealthContribution |-> contributions.appliedPhilHealth.employee,
            pagIbigContribution |-> contributions.appliedPagIbig.employee,
            withholdingTax |-> contributions.bir.tax,
            sssEmployer |-> contributions.appliedSSS.employer,
            philHealthEmployer |-> contributions.appliedPhilHealth.employer,
            pagIbigEmployer |-> contributions.appliedPagIbig.employer]
      ELSE [cutoff |-> cutoff, frequency |-> frequency,
            sssContribution |-> RInt(sssTableContribution),
            philHealthContribution |-> RZero, pagIbigContribution |-> RZero,
            withholdingTax |-> RZero,
            sssEmployer |-> RZero, philHealthEmployer |-> RZero, pagIbigEmployer |-> RZero]

\* loadBreakdownAttendance, the attendance totals of the period's rows
BreakdownAttendance(table, dir, employeeId, startDate, endDate) ==
  LET empData == CompEmployee(dir[employeeId])
      isFixed == BreakdownIsFixed(empData)
      dailyRate == Rat(empData.baseSalary, 30)
      rows == { BreakdownDay(r, empData) :
                  r \in fetchAttendanceForEmployee(table, employeeId, startDate, endDate) }
      counted == { d \in rows : d.counted }
      totalDays == Cardinality(counted)
      totalAbsent == Cardinality({ d \in rows : d.status = "Absent" })
      totalInvalid == Cardinality({ d \in rows : d.status = "Invalid" })
      sumRegPay == SumDays(counted, "regPay")
      isFullMonth == getDate(startDate) = 1 /\ getDate(endDate) = lastDayOfMonth(endDate)
      expectedWorkingDays == expectedWorkingDaysIn(startDate, endDate)
      is2ndCut == getDate(endDate) >= 16
      hasCurrentPeriodPerfect == /\ totalAbsent = 0 /\ totalInvalid = 0
                                 /\ totalDays >= expectedWorkingDays /\ expectedWorkingDays > 0
      has1stCutPerfect == IF is2ndCut THEN FirstCutPerfect(table, employeeId, endDate) ELSE TRUE
      hasPerfectAttendance == is2ndCut /\ hasCurrentPeriodPerfect /\ has1stCutPerfect
  IN  [loaded |-> TRUE, employeeId |-> employeeId, startDate |-> startDate, endDate |-> endDate,
       isFixedRate |-> isFixed, dailyRate |-> dailyRate, rows |-> rows,
       totalDays |-> totalDays, totalAbsent |-> totalAbsent, totalInvalid |-> totalInvalid,
       totalRegHrs |-> SumDays(counted, "regHours"),
       totalOTHrs |-> SumDays(counted, "otHours"),
       totalRegPay |-> IF isFixed /\ isFullMonth /\ RLt(RInt(empData.baseSalary), sumRegPay)
                       THEN RInt(empData.baseSalary) ELSE sumRegPay,
       totalOTPay |-> SumDays(counted, "otPay"),
       allowance |-> RInt(empData.allowance * (IF isFullMonth THEN 2 ELSE 1)),
       doublePay |-> SumDays(counted, "dayDoublePay"),
       expectedWorkingDays |-> expectedWorkingDays,
       hasPerfectAttendance |-> hasPerfectAttendance,
       perfectAttendanceBonus |-> IF hasPerfectAttendance THEN dailyRate ELSE RZero,
       lateDed |-> RZero,
       absentDed |-> RMul(RInt(totalAbsent), dailyRate)]

\* loadBreakdownAttendance, the earnings: the leave conversion bonus is added
\* to the attendance totals a, and the total earnings are summed
BreakdownEarnings(a, unusedLeave) ==
  LET leaveConversionBonus == RMul(RInt(unusedLeave), a.dailyRate)
      bonuses == RAdd(RAdd(a.doublePay, a.perfectAttendanceBonus), leaveConversionBonus)
  IN  a @@ [leaveConversionBonus |-> leaveConversionBonus,
            bonuses |-> bonuses,
            totalEarnings |-> RAdd(RAdd(RAdd(a.totalRegPay, a.totalOTPay), a.allowance),
                                   bonuses)]

\* loadBreakdownAttendance, the deductions: the contributions govt are taken
\* from the earnings e, and the net pay is what remains
BreakdownDeductions(e, govt) ==
  LET govtContributionsTotal ==
        RAdd(RAdd(govt.sssContribution, govt.philHealthContribution),
             RAdd(govt.pagIbigContribution, govt.withholdingTax))
      otherDeductions == RZero
      totalDeductions == RAdd(govtContributionsTotal, otherDeductions)
  IN  [loaded |-> TRUE, employeeId |-> e.employeeId,
       startDate |-> e.startDate, endDate |-> e.endDate,
       isFixedRate |-> e.isFixedRate, dailyRate |-> e.dailyRate, rows |-> e.rows,
       totalDays |-> e.totalDays, totalAbsent |-> e.totalAbsent,
       totalInvalid |-> e.totalInvalid,
       totalRegHrs |-> e.totalRegHrs, totalOTHrs |-> e.totalOTHrs,
       totalRegPay |-> e.totalRegPay, totalOTPay |-> e.totalOTPay,
       allowance |-> e.allowance, doublePay |-> e.doublePay,
       expectedWorkingDays |-> e.expectedWorkingDays,
       hasPerfectAttendance |-> e.hasPerfectAttendance,
       perfectAttendanceBonus |-> e.perfectAttendanceBonus,
       leaveConversionBonus |-> e.leaveConversionBonus,
       lateDed |-> e.lateDed, absentDed |-> e.absentDed,
       totalEarnings |-> e.totalEarnings,
       cutoff |-> govt.cutoff, frequency |-> govt.frequency,
       sssContribution |-> govt.sssContribution,
       philHealthContribution |-> govt.philHealthContribution,
       pagIbigContribution |-> govt.pagIbigContribution,
       withholdingTax |-> govt.withholdingTax,
       govtContributionsTotal |-> govtContributionsTotal,
       sssEmployer |-> govt.sssEmployer, philHealthEmployer |-> govt.philHealthEmployer,
       pagIbigEmployer |-> govt.pagIbigEmployer,
       otherDeductions |-> otherDeductions,
       totalDeductions |-> totalDeductions,
       netPay |-> RSub(e.totalEarnings, totalDeductions),
       excludeAllDeductions |-> FALSE, advanceDeduction |-> RZero,
       effective |-> NoEffective]

\* the contributions of the earnings e
ContributionsOf(e, empData, calculatorLoaded, sssTableContribution) ==
  BreakdownDeductions(e, Contributions(calculatorLoaded, sssTableContribution, empData, e,
                                       e.startDate, e.endDate))

\* the figures loadBreakdownAttendance leaves in calculatedData
Breakdown(table, dir, employeeId, startDate, endDate, calculatorLoaded, sssTableContribution) ==
  ContributionsOf(BreakdownEarnings(BreakdownAttendance(table, dir, employeeId,
                                                        startDate, endDate),
                                    unusedPersonalLeave(table, employeeId, startDate, endDate)),
                  CompEmployee(dir[employeeId]), calculatorLoaded, sssTableContribution)

\* resetBreakdownSummary: the earnings, SSS, total deductions and net pay of
\* the summary are shown as 0.00
resetBreakdownSummary(shown) ==
  [shown EXCEPT !.totalEarnings = RZero, !.sss = RZero,
                !.totalDeductions = RZero, !.netPay = RZero]

\* the totals updateBreakdownTotals computes from the calculated data, the
\* planned advance deduction and the exclude-all input
BreakdownTotals(data, advance, excludeAll) ==
  LET advanceDeduction == RInt(advance.deductionAmount)
      sssContribution ==
        IF excludeAll \/ ~data.loaded THEN RZero ELSE data.sssContribution
      philHealthContribution ==
        IF excludeAll \/ ~data.loaded THEN RZero ELSE data.philHealthContribution
      pagIbigContribution ==
        IF excludeAll \/ ~data.loaded THEN RZero ELSE data.pagIbigContribution
      withholdingTax ==
        IF excludeAll \/ ~data.loaded THEN RZero ELSE data.withholdingTax
      govtContributionsTotal ==
        RAdd(RAdd(sssContribution, philHealthContribution),
             RAdd(pagIbigContribution, withholdingTax))
      totalEarnings == IF data.loaded THEN data.totalEarnings ELSE RZero
      otherDeductions == IF data.loaded THEN data.otherDeductions ELSE RZero
      totalDeductions == RAdd(RAdd(govtContributionsTotal, advanceDeduction), otherDeductions)
  IN  [advanceDeduction |-> advanceDeduction,
       sssContribution |-> sssContribution,
       philHealthContribution |-> philHealthContribution,
       pagIbigContribution |-> pagIbigContribution,
       withholdingTax |-> withholdingTax,
       govtContributionsTotal |-> govtContributionsTotal,
       totalEarnings |-> totalEarnings,
       totalDeductions |-> totalDeductions,
       netPay |-> RSub(totalEarnings, totalDeductions)]

\* an update of the totals that shows them without the advance deduction
updateBreakdownTotalsDisplay_noAdvance(shown, data, advance, excludeAll) ==
  LET t == BreakdownTotals(data, NoAdvance, excludeAll)
  IN  [shown EXCEPT !.advanceDeduction = toFixed2(t.advanceDeduction),
                    !.totalDeductions = toFixed2(t.totalDeductions),
                    !.netPay = toFixed2(t.netPay)]

\* updateBreakdownTotals, the summary it shows
updateBreakdownTotalsDisplay(shown, data, advance, excludeAll) ==
  LET t == BreakdownTotals(data, advance, excludeAll)
  IN  [shown EXCEPT !.advanceDeduction = toFixed2(t.advanceDeduction),
                    !.totalDeductions = toFixed2(t.totalDeductions),
                    !.netPay = toFixed2(t.netPay)]

\* updateBreakdownTotals, the calculated data it leaves for the save
updateBreakdownTotalsData(data, advance, excludeAll) ==
  LET t == BreakdownTotals(data, advance, excludeAll)
  IN  IF ~data.loaded THEN data
      ELSE [data EXCEPT !.advanceDeduction = t.advanceDeduction,
                        !.totalDeductions = t.totalDeductions,
                        !.netPay = t.netPay,
                        !.excludeAllDeductions = excludeAll,
                        !.effective = [set |-> TRUE,
                                       sssContribution |-> t.sssContribution,
                                       philHealthContribution |-> t.philHealthContribution,
                                       pagIbigContribution |-> t.pagIbigContribution,
                                       withholdingTax |-> t.withholdingTax,
                                       govtContributionsTotal |-> t.govtContributionsTotal]]

\* the summary loadBreakdownAttendance shows for freshly calculated data
BreakdownDisplay(shown, data) ==
  [shown EXCEPT !.totalEarnings = toFixed2(data.totalEarnings),
                !.sss = toFixed2(data.sssContribution),
                !.philHealth = toFixed2(data.philHealthContribution),
                !.pagIbig = toFixed2(data.pagIbigContribution),
                !.withholdingTax = toFixed2(data.withholdingTax),
                !.govtTotal = toFixed2(data.govtContributionsTotal),
                !.totalDeductions = toFixed2(data.totalDeductions),
                !.netPay = toFixed2(data.netPay)]

\* loadSalaryAdvancesForBreakdown for the calculated data and summary at hand:
\* an outstanding balance is deducted in full and the totals are updated, no
\* balance clears the advance and leaves the totals as they are
loadSalaryAdvancesForBreakdown(data, shown, employeeId, startDate, endDate, ledgerOk) ==
  LET balance == fetchEmployeeAdvances(transactions, employeeId, startDate, endDate,
                                       ledgerOk).outstandingBalance
      advance == [outstandingBalance |-> balance, deductionAmount |-> balance]
  IN  IF balance > 0
      THEN /\ currentAdvanceDeductionData' = advance
           /\ display' = updateBreakdownTotalsDisplay(shown, data, advance,
                                                      excludeAllDeductionsInput)
           /\ calculatedData' = updateBreakdownTotalsData(data, advance,
                                                          excludeAllDeductionsInput)
      ELSE /\ currentAdvanceDeductionData' = NoAdvance
           /\ display' = [shown EXCEPT !.advanceDeduction = RZero]
           /\ calculatedData' = data

\* loadBreakdownAttendance: the period's rows are fetched; none resets the
\* summary and returns; otherwise the pay is calculated (the SSS table is read
\* when the calculator module is not loaded), shown and stored, and the
\* salary advances of the period are loaded
LoadBreakdownAttendance(employeeId, startDate, endDate, sssOk, ledgerOk) ==
  /\ startDate <= endDate
  /\ IF fetchAttendanceForEmployee(store, employeeId, startDate, endDate) = {}
     THEN /\ display' = resetBreakdownSummary(display)
          /\ UNCHANGED <<calculatedData, currentAdvanceDeductionData>>
     ELSE \E data \in { Breakdown(store, directory, employeeId, startDate, endDate,
                                   govContributionsLoaded,
                                   fetchSSSEmployeeContribution(sssContributionRecords,
                                                                employeeId, sssOk)) } :
            loadSalaryAdvancesForBreakdown(data, BreakdownDisplay(display, data),
                                           employeeId, startDate, endDate, ledgerOk)
  /\ currentBreakdownContext' =
       [employeeId |-> employeeId, startDate |-> startDate, endDate |-> endDate]
  /\ UNCHANGED <<directory, leaveDays, store, nextId, pc, loc, batchVars, bulkVars, notice, kioskVars,
                 govContributionsLoaded, sssContributionRecords, transactions,
                 excludeAllDeductionsInput, payrollItem, payNotice,
                 pendingLoads, pendingClose>>

\* toggleExcludeAllDeductions: the input takes the choice, the contributions
\* are shown as 0.00 or as calculated, and the totals are updated
ToggleExcludeAllDeductions(shouldExclude) ==
  LET data == calculatedData
      shownContribution(field) ==
        IF shouldExclude \/ ~data.loaded THEN RZero ELSE toFixed2(data[field])
      shown == [display EXCEPT !.sss = shownContribution("sssContribution"),
                               !.philHealth = shownContribution("philHealthContribution"),
                               !.pagIbig = shownContribution("pagIbigContribution"),
                               !.withholdingTax = shownContribution("withholdingTax"),
                               !.govtTotal = shownContribution("govtContributionsTotal")]
  IN  /\ excludeAllDeductionsInput' = shouldExclude
      /\ display' = updateBreakdownTotalsDisplay(shown, data, currentAdvanceDeductionData,
                                                 shouldExclude)
      /\ calculatedData' = updateBreakdownTotalsData(data, currentAdvanceDeductionData,
                                                     shouldExclude)
      /\ UNCHANGED <<directory, store, nextId, pc, loc, batchVars, bulkVars, notice,
                     kioskVars, govContributionsLoaded, sssContributionRecords,
                     transactions, currentAdvanceDeductionData, payrollItem, payNotice,
                     currentBreakdownContext, pendingLoads, pendingClose, leaveDays>>

\* setAdvanceDeduction: the outstanding balance is deducted in full or not at
\* all, and the totals are updated
SetAdvanceDeduction(shouldDeduct) ==
  LET advance == [outstandingBalance |-> currentAdvanceDeductionData.outstandingBalance,
                  deductionAmount |-> IF shouldDeduct
                                      THEN currentAdvanceDeductionData.outstandingBalance
                                      ELSE 0]
  IN  /\ currentAdvanceDeductionData' = advance
      /\ display' = updateBreakdownTotalsDisplay(display, calculatedData, advance,
                                                 excludeAllDeductionsInput)
      /\ calculatedData' = updateBreakdownTotalsData(calculatedData, advance,
                                                     excludeAllDeductionsInput)
      /\ UNCHANGED <<directory, store, nextId, pc, loc, batchVars, bulkVars, notice,
                     kioskVars, govContributionsLoaded, sssContributionRecords,
                     transactions, excludeAllDeductionsInput, payrollItem, payNotice,
                     currentBreakdownContext, pendingLoads, pendingClose, leaveDays>>

\* the payroll item saveBreakdownRecord hands to createPayrollItemRecord
PayrollItemData(data, advance) ==
  LET excludeAll == data.excludeAllDeductions
      sssContribution == IF excludeAll THEN RZero ELSE data.sssContribution
      philHealthContribution == IF excludeAll THEN RZero ELSE data.philHealthContribution
      pagIbigContribution == IF excludeAll THEN RZero ELSE data.pagIbigContribution
      withholdingTax == IF excludeAll THEN RZero ELSE data.withholdingTax
      govtContributionsTotal ==
        RAdd(RAdd(sssContribution, philHealthContribution),
             RAdd(pagIbigContribution, withholdingTax))
      grossPay == data.totalEarnings
      advanceDeduction == RInt(advance.deductionAmount)
      totalDeductions ==
        RAdd(RAdd(RAdd(govtContributionsTotal, advanceDeduction), data.otherDeductions),
             RAdd(data.lateDed, data.absentDed))
  IN  [saved |-> TRUE,
       employeeId |-> data.employeeId,
       overtimePay |-> data.totalOTPay,
       allowances |-> data.allowance,
       bonuses |-> data.doublePay,
       grossPay |-> grossPay,
       netPay |-> RSub(grossPay, totalDeductions),
       sssContribution |-> sssContribution,
       philHealthContribution |-> philHealthContribution,
       pagIbigContribution |-> pagIbigContribution,
       withholdingTax |-> withholdingTax,
       sssEmployer |-> IF excludeAll THEN RZero ELSE data.sssEmployer,
       philHealthEmployer |-> IF excludeAll THEN RZero ELSE data.philHealthEmployer,
       pagIbigEmployer |-> IF excludeAll THEN RZero ELSE data.pagIbigEmployer,
       lateDeductions |-> data.lateDed,
       absentDeductions |-> data.absentDed,
       salaryAdvanceDeduction |-> advanceDeduction,
       otherDeductions |-> RZero,
       totalDeductions |-> totalDeductions,
       status |-> "Pending",
       startDate |-> data.startDate,
       endDate |-> data.endDate,
       isDailyBreakdown |-> TRUE]

\* saveBreakdownRecord: nothing is saved before attendance is loaded; an
\* outstanding advance that is not deducted is saved only when the confirm
\* dialog is answered with proceed; the item is created, and the close of the
\* modal is scheduled, or the request fails
SaveBreakdownRecord(proceed, createOk) ==
  /\ IF ~calculatedData.loaded
     THEN /\ payNotice' = [type |-> "error", text |-> "Please load attendance data first"]
          /\ UNCHANGED <<payrollItem, pendingClose>>
     ELSE IF /\ currentAdvanceDeductionData.outstandingBalance > 0
             /\ currentAdvanceDeductionData.deductionAmount = 0
             /\ ~proceed
     THEN UNCHANGED <<payrollItem, payNotice, pendingClose>>
     ELSE IF createOk
     THEN /\ payrollItem' = PayrollItemData(calculatedData, currentAdvanceDeductionData)
          /\ payNotice' = [type |-> "success", text |-> "Payroll breakdown saved"]
          /\ pendingClose' = TRUE
     ELSE /\ payNotice' = [type |-> "error", text |-> "Failed to save record"]
          /\ UNCHANGED <<payrollItem, pendingClose>>
  /\ UNCHANGED <<directory, leaveDays, store, nextId, pc, loc, batchVars, bulkVars, notice, kioskVars,
                 calculatedData, govContributionsLoaded, sssContributionRecords,
                 transactions, excludeAllDeductionsInput, currentAdvanceDeductionData,
                 display, currentBreakdownContext, pendingLoads>>

\* showDailyBreakdownModal: the context and the summary are reset, the
\* exclude-all input is cleared and the employee's advances are loaded
ShowDailyBreakdownModal(employeeId, ledgerOk) ==
  /\ excludeAllDeductionsInput' = FALSE
  /\ LET balance == fetchEmployeeAdvances(transactions, employeeId, 1,
                                          MonthDays + NextMonthDays,
                                          ledgerOk).outstandingBalance
         advance == [outstandingBalance |-> balance, deductionAmount |-> balance]
         shown == resetBreakdownSummary(display)
     IN  IF balance > 0
         THEN /\ currentAdvanceDeductionData' = advance
              /\ display' = updateBreakdownTotalsDisplay(shown, NoData, advance,
                                                         excludeAllDeductionsInput)
         ELSE /\ currentAdvanceDeductionData' = NoAdvance
              /\ display' = [shown EXCEPT !.advanceDeduction = RZero]
  /\ calculatedData' = NoData
  /\ currentBreakdownContext' =
       [employeeId |-> employeeId,
        startDate |-> IF getDate(Today) <= 15 THEN monthStart(Today) ELSE monthStart(Today) + 15,
        endDate |-> IF getDate(Today) <= 15 THEN monthStart(Today) + 14
                    ELSE monthStart(Today) + lastDayOfMonth(Today) - 1]
  /\ UNCHANGED <<directory, leaveDays, store, nextId, pc, loc, batchVars, bulkVars, notice, kioskVars,
                 govContributionsLoaded, sssContributionRecords, transactions,
                 payrollItem, payNotice, pendingLoads, pendingClose>>

\* closeDailyBreakdownModal: the context and the advance data are reset; the
\* period inputs keep their values
CloseDailyBreakdownModal ==
  /\ calculatedData' = NoData
  /\ currentAdvanceDeductionData' = NoAdvance
  /\ currentBreakdownContext' = [currentBreakdownContext EXCEPT !.employeeId = ""]
  /\ UNCHANGED <<directory, leaveDays, store, nextId, pc, loc, batchVars, bulkVars, notice, kioskVars,
                 govContributionsLoaded, sssContributionRecords, transactions,
                 excludeAllDeductionsInput, display, payrollItem, payNotice,
                 pendingLoads, pendingClose>>

\* loadBreakdownAttendance up to the request of fetchAttendanceForEmployee:
\* the period is typed into the inputs, and nothing is requested when the
\* context holds no employee
StartLoadBreakdown(startDate, endDate) ==
  /\ startDate <= endDate
  /\ currentBreakdownContext' =
       [currentBreakdownContext EXCEPT !.startDate = startDate, !.endDate = endDate]
  /\ IF currentBreakdownContext.employeeId = ""
     THEN /\ payNotice' = [type |-> "error", text |-> "No employee selected"]
          /\ UNCHANGED pendingLoads
     ELSE /\ pendingLoads' = pendingLoads \cup { currentBreakdownContext' }
          /\ UNCHANGED payNotice
  /\ UNCHANGED <<directory, leaveDays, store, nextId, pc, loc, batchVars, bulkVars, notice, kioskVars,
                 calculatedData, govContributionsLoaded, sssContributionRecords,
                 transactions, excludeAllDeductionsInput, currentAdvanceDeductionData,
                 display, payrollItem, pendingClose>>

\* loadBreakdownAttendance from the answer of fetchAttendanceForEmployee, for
\* a load whose employee the modal still shows: the totals of the load's own
\* employee and period are shown and stored, whatever was requested since
FinishLoadBreakdown(sssOk, ledgerOk) ==
  \E load \in pendingLoads :
    /\ currentBreakdownContext.employeeId = load.employeeId
    /\ pendingLoads' = pendingLoads \ {load}
    /\ IF fetchAttendanceForEmployee(store, load.employeeId, load.startDate, load.endDate) = {}
       THEN /\ display' = resetBreakdownSummary(display)
            /\ UNCHANGED <<calculatedData, currentAdvanceDeductionData>>
       ELSE \E data \in { Breakdown(store, directory, load.employeeId, load.startDate,
                                     load.endDate, govContributionsLoaded,
                                     fetchSSSEmployeeContribution(sssContributionRecords,
                                                                  load.employeeId, sssOk)) } :
              loadSalaryAdvancesForBreakdown(data, BreakdownDisplay(display, data),
                                             load.employeeId, load.startDate, load.endDate,
                                             ledgerOk)
    /\ UNCHANGED <<directory, leaveDays, store, nextId, pc, loc, batchVars, bulkVars, notice, kioskVars,
                   govContributionsLoaded, sssContributionRecords, transactions,
                   excludeAllDeductionsInput, payrollItem, payNotice,
                   currentBreakdownContext, pendingClose>>

\* the timer set by saveBreakdownRecord fires: closeDailyBreakdownModal
DelayedClose ==
  /\ pendingClose
  /\ pendingClose' = FALSE
  /\ calculatedData' = NoData
  /\ currentAdvanceDeductionData' = NoAdvance
  /\ currentBreakdownContext' = [currentBreakdownContext EXCEPT !.employeeId = ""]
  /\ UNCHANGED <<directory, leaveDays, store, nextId, pc, loc, batchVars, bulkVars, notice, kioskVars,
                 govContributionsLoaded, sssContributionRecords, transactions,
                 excludeAllDeductionsInput, display, payrollItem, payNotice, pendingLoads>>

(* --------------------------- specifications ----------------------------- *)
\* the dates the attendance page and the kiosk work on: today and tomorrow
Dates == {Today, Today + 1}

\* a full day, 8:00-12:00 and 13:00-17:00
FullDay == Punches(480, 720, 780, 1020)

\* the punches the pay specification types into the forms
PayPunches ==
  { Punches(NoTime, NoTime, NoTime, NoTime),
    FullDay,
    Punches(420, 720, 780, 1080),
    Punches(720, 480, NoTime, NoTime) }

\* the punches the pay specification types into the batch form
BatchPunches == { Punches(420, 720, 780, 1080), Punches(720, 480, NoTime, NoTime) }

\* record creation by two attendance-page sessions and the kiosk: both sessions
\* add by hand, session a also edits, session b also adds in batch
Next ==
  \/ \E c \in Callers, d \in Dates : AddCheck(c, "E1", d, FullDay, FALSE, "None")
  \/ \E c \in Callers : AddCreate(c)
  \/ \E attendanceId \in 1..MaxRecords, d \in Dates :
       EditCheck("a", attendanceId, d, FullDay, FALSE, "None")
  \/ EditWrite("a")
  \/ \E skipExisting \in BOOLEAN : GenerateBatchPreview("b", "E1", Today, Today, skipExisting)
  \/ BatchSubmit("b", FullDay, FALSE)
  \/ BatchLoop("b")
  \/ BatchAdd("b")
  \/ \E actionType \in {"TimeInAM", "TimeOutAM"} : SaveClockRecord(1, "E1", actionType)
  \/ FindTodayRecord(1)
  \/ WriteClockRecord(1)

Spec == Init /\ [][Next]_vars

\* batch add and bulk delete with cancellation and failing requests
NextBatch ==
  \/ \E skipExisting \in BOOLEAN :
       GenerateBatchPreview("a", "E1", Today, Today + 1, skipExisting)
  \/ BatchSubmit("a", FullDay, FALSE)
  \/ BatchLoop("a")
  \/ BatchAdd("a")
  \/ CancelBatchAdd("a")
  \/ CloseBatchAddModal("a")
  \/ \E ids \in SUBSET (1..MaxRecords) : ConfirmBulkDelete("b", ids)
  \/ BulkLoop("b")
  \/ BulkRemove("b")
  \/ CancelBulkDelete("b")

SpecBatch == Init /\ [][NextBatch]_vars

\* one attendance-page session and the payroll page, for every directory row
\* of Profiles
InitPay ==
  \E row \in Profiles :
    InitWith([e \in Employees |-> IF e = "E1" THEN row ELSE FixedDirectory[e]], {})

NextPay ==
  \/ \E p \in PayPunches, checked \in BOOLEAN : AddCheck("a", "E1", Today, p, checked, "None")
  \/ AddCreate("a")
  \/ \E attendanceId \in 1..MaxRecords, p \in PayPunches, checked \in BOOLEAN :
       EditCheck("a", attendanceId, Today, p, checked, "None")
  \/ EditWrite("a")
  \/ GenerateBatchPreview("a", "E1", Today + 1, Today + 1, TRUE)
  \/ \E p \in BatchPunches, doublePaySunday \in BOOLEAN : BatchSubmit("a", p, doublePaySunday)
  \/ BatchLoop("a")
  \/ BatchAdd("a")
  \/ LoadBreakdownAttendance("E1", 1, 15, TRUE, TRUE)

SpecPay == InitPay /\ [][NextPay]_vars

\* the kiosk and the payroll page, for every directory row of Profiles
NextClock ==
  \/ \E actionType \in ActionTypes : SaveClockRecord(1, "E1", actionType)
  \/ FindTodayRecord(1)
  \/ WriteClockRecord(1)
  \/ Tick
  \/ LoadBreakdownAttendance("E1", 1, 15, TRUE, TRUE)

SpecClock == InitPay /\ [][NextClock]_vars

\* the payroll page over one month of records of E1: a full day on every
\* Monday-Saturday, but for at most one day whose record is missing, has no
\* punches, or holds ten minutes of work
WorkingDays == { d \in 1..MonthDays : getDay(d) >= 1 /\ getDay(d) <= 6 }

Deviations == {"missing", "no punches", "ten minutes"}

DayPunches(kind) ==
  IF kind = "no punches" THEN Punches(NoTime, NoTime, NoTime, NoTime)
  ELSE IF kind = "ten minutes" THEN Punches(480, 490, NoTime, NoTime)
  ELSE FullDay

MonthTable(day, kind) ==
  { [id |-> d] @@ AttendanceData(FixedDirectory["E1"], "E1", d,
                                 DayPunches(IF d = day THEN kind ELSE "full"), FALSE, "None") :
      d \in { x \in WorkingDays : ~(x = day /\ kind = "missing") } }

InitPeriod ==
  \E day \in WorkingDays \cup {0}, kind \in Deviations :
    /\ day = 0 => kind = "missing"
    /\ InitWith(FixedDirectory, MonthTable(day, kind))

Periods == { <<1, 15>>, <<16, MonthDays>>, <<1, MonthDays>> }

NextPeriod ==
  \E period \in Periods : LoadBreakdownAttendance("E1", period[1], period[2], TRUE, TRUE)

SpecPeriod == InitPeriod /\ [][NextPeriod]_vars

\* the payroll breakdown modal over records of E1 in June and July: full days
\* on the 1st and 16th of June and on the 1st and 16th of July, and on the 3rd
\* of June a record without punches; the ledger holds no advance or one of
\* AdvanceAmount dated the 5th of June; the calculator module is loaded or
\* not; the SSS table holds a record of E1
AdvanceAmount == 2000

SSSTableAmount == 450

NetTable ==
  { [id |-> d] @@ AttendanceData(FixedDirectory["E1"], "E1", d,
                                 DayPunches(IF d \in {3, 17} THEN "no punches" ELSE "full"),
                                 FALSE, IF d = 17 THEN "Vacation" ELSE "None") :
      d \in {1, 3, 16, 17, MonthDays + 1, MonthDays + 16} }

InitNet ==
  \E loaded \in BOOLEAN, hasAdvance \in BOOLEAN :
    /\ InitTables(FixedDirectory, NetTable)
    /\ InitServices(loaded,
                    [e \in {"E1"} |-> SSSTableAmount],
                    IF hasAdvance
                    THEN {[employeeId |-> "E1", date |-> 5, amount |-> AdvanceAmount]}
                    ELSE {})

NetPeriods == { <<1, 15>>, <<16, MonthDays>> }

NextNet ==
  \/ \E period \in NetPeriods, sssOk \in BOOLEAN, ledgerOk \in BOOLEAN :
       LoadBreakdownAttendance("E1", period[1], period[2], sssOk, ledgerOk)
  \/ \E shouldExclude \in BOOLEAN : ToggleExcludeAllDeductions(shouldExclude)
  \/ \E shouldDeduct \in BOOLEAN : SetAdvanceDeduction(shouldDeduct)
  \/ \E proceed \in BOOLEAN, createOk \in BOOLEAN : SaveBreakdownRecord(proceed, createOk)
  \/ \E ledgerOk \in BOOLEAN : ShowDailyBreakdownModal("E1", ledgerOk)
  \/ CloseDailyBreakdownModal

SpecNet == InitNet /\ [][NextNet]_vars

\* the payroll page over the same records, for periods that are a calendar
\* month and periods that are not
MonthPeriods ==
  { <<1, 15>>, <<16, MonthDays>>, <<1, MonthDays>>, <<2, MonthDays>>, <<1, MonthDays - 1>>,
    <<MonthDays + 1, MonthDays + NextMonthDays>>, <<MonthDays + 1, MonthDays + 30>>,
    <<1, MonthDays + 30>>, <<16, MonthDays + 15>> }

NextMonth ==
  \/ \E period \in MonthPeriods, sssOk \in BOOLEAN, ledgerOk \in BOOLEAN :
       LoadBreakdownAttendance("E1", period[1], period[2], sssOk, ledgerOk)
  \/ \E shouldExclude \in BOOLEAN : ToggleExcludeAllDeductions(shouldExclude)

SpecMonth == InitNet /\ [][NextMonth]_vars

\* the add form and the batch form, for an employee of the directory and for
\* an id the directory does not hold; the descriptor of E1 is absent or
\* malformed (a single clock time)
InitValid ==
  \E cwh \in {NoDescriptor, <<ClockPart(8, 0, "AM")>>} :
    InitWith([e \in Employees |->
                IF e = "E1" THEN Profile("Time-based", 40, 30000, cwh)
                ELSE FixedDirectory[e]], {})

NextValid ==
  \/ \E employeeId \in {"E1", "E9"}, d \in Dates, p \in BatchPunches :
       AddCheck("a", employeeId, d, p, FALSE, "None")
  \/ AddCreate("a")
  \/ \E employeeId \in {"E1", "E9"}, skipExisting \in BOOLEAN :
       GenerateBatchPreview("b", employeeId, Today, Today, skipExisting)
  \/ \E p \in BatchPunches : BatchSubmit("b", p, FALSE)
  \/ BatchLoop("b")
  \/ BatchAdd("b")

SpecValid == InitValid /\ [][NextValid]_vars

\* the kiosk alone: punches of E1 entered while an earlier save may still be
\* pending, with the clock modal reopened at any moment
NextKiosk ==
  \/ \E i \in Invocations, actionType \in {"TimeInAM", "TimeOutAM"} :
       SaveClockRecord(i, "E1", actionType)
  \/ \E i \in Invocations : FindTodayRecord(i)
  \/ \E i \in Invocations : WriteClockRecord(i)
  \/ ShowClockModal
  \/ Tick

SpecKiosk == Init /\ [][NextKiosk]_vars

\* the morning punches of E1 repeated at one instant of the kiosk clock
NextKioskFair ==
  \/ \E i \in Invocations, actionType \in {"TimeInAM", "TimeOutAM"} :
       SaveClockRecord(i, "E1", actionType)
  \/ \E i \in Invocations : FindTodayRecord(i)
  \/ \E i \in Invocations : WriteClockRecord(i)
  \/ ShowClockModal

\* the store answers every request of a pending save, with a result or an error
SpecKioskFair ==
  /\ Init
  /\ [][NextKioskFair]_vars
  /\ \A i \in Invocations : WF_vars(FindTodayRecord(i)) /\ WF_vars(WriteClockRecord(i))

\* the payroll modal of E1 with loads that overlap and the delayed close of a
\* save, over the records of NetTable
NextLoad ==
  \/ ShowDailyBreakdownModal("E1", TRUE)
  \/ \E period \in NetPeriods : StartLoadBreakdown(period[1], period[2])
  \/ FinishLoadBreakdown(TRUE, TRUE)
  \/ SaveBreakdownRecord(TRUE, TRUE)
  \/ DelayedClose
  \/ CloseDailyBreakdownModal

SpecLoad == InitNet /\ [][NextLoad]_vars

\* one attendance-page session adding, editing and deleting records of E1
\* with and without leave
NextLeave ==
  \/ \E leaveType \in {"None", "Vacation", "Sick"} :
       AddCheck("a", "E1", Today, FullDay, FALSE, leaveType)
  \/ AddCreate("a")
  \/ \E attendanceId \in 1..MaxRecords, leaveType \in {"None", "Vacation", "Sick"} :
       EditCheck("a", attendanceId, Today, FullDay, FALSE, leaveType)
  \/ EditWrite("a")
  \/ \E attendanceId \in 1..MaxRecords : DeleteAttendance("a", attendanceId)

SpecLeave == Init /\ [][NextLeave]_vars

(* -------------------------------- claims ------------------------------- *)
\* C1: after any sequence of manual adds, batch adds, clock punches and date
\* edits by any number of callers, the store holds at most one record for
\* each employee and calendar date.
C1_OneRecordPerDay ==
  \A r1 \in store, r2 \in store :
    (r1.EmployeeId = r2.EmployeeId /\ r1.Date = r2.Date) => r1.id = r2.id

\* C2: a create request for an employee and date that already has a record
\* issues no write: no step adds a row whose employee and date are already
\* in the store, so the existing record stays as it was.
C2_DuplicateCreateRejected ==
  [][\A r \in store' :
       (r.id \notin { x.id : x \in store })
         => ~(\E x \in store : x.EmployeeId = r.EmployeeId /\ x.Date = r.Date)]_vars

\* C3: the creation race is open: once a caller's existence check has
\* answered "no record", its create writes a new row whatever the store has
\* come to hold in the meantime, on the attendance page and on the kiosk.
C3_CreateAfterCheckAlwaysWrites ==
  [][/\ \A c \in Callers :
          (pc[c] = "addCreate" /\ pc'[c] = "idle" /\ notice'[c].type = "success")
            => /\ Cardinality(store') = Cardinality(store) + 1
               /\ \E r \in store' : /\ r.id = nextId
                                    /\ r.EmployeeId = loc[c].data.EmployeeId
                                    /\ r.Date = loc[c].data.Date
     /\ \A i \in Invocations :
          (/\ kpc[i] = "write" /\ kpc'[i] = "idle"
           /\ kloc[i].existingRecord = 0 /\ knotice'.type = "success")
            => /\ Cardinality(store') = Cardinality(store) + 1
               /\ \E r \in store' : /\ r.id = nextId
                                    /\ r.EmployeeId = kloc[i].employeeId
                                    /\ r.Date = kloc[i].dateValue]_vars

\* C3 witness: both sessions passed the check for the same employee and date
\* and both creates were written
C3_BothCreatesWritten ==
  /\ nextId = 3
  /\ notice["a"] = [type |-> "success", text |-> "added"]
  /\ notice["b"] = [type |-> "success", text |-> "added"]
  /\ \E r1 \in store, r2 \in store :
       r1.id # r2.id /\ r1.EmployeeId = r2.EmployeeId /\ r1.Date = r2.Date

\* C4: for a Fixed employee every stored record, and every figure of the
\* payroll breakdown, has overtime hours 0 and overtime pay 0.
C4_FixedNoOvertime ==
  /\ \A r \in store :
       isFixedRate(directory[r.EmployeeId])
         => r.OvertimeHours = RZero /\ r.OverTimePay = RZero
  /\ (calculatedData.loaded /\ isFixedRate(directory[calculatedData.employeeId]))
       => /\ calculatedData.totalOTHrs = RZero
          /\ calculatedData.totalOTPay = RZero
          /\ \A d \in calculatedData.rows : d.otHours = RZero /\ d.otPay = RZero

\* C5: for a TimeBased employee every record's overtime pay is exactly
\* overtimeHours x hourlyRate x 1.25 with hourlyRate = (baseSalary / 30) /
\* (standardWorkweekHours / 7), in the store and in the payroll breakdown.
C5_OvertimePayFormula ==
  LET hourlyRate(emp) == RDiv(Rat(emp.baseSalary, 30), Rat(StdWeek(emp), 7))
      due(emp, overtimeHours) == RMul(RMul(overtimeHours, hourlyRate(emp)), Rat(5, 4))
  IN  /\ \A r \in store :
           ~isFixedRate(directory[r.EmployeeId])
             => r.OverTimePay = due(directory[r.EmployeeId], r.OvertimeHours)
      /\ (calculatedData.loaded /\ ~isFixedRate(directory[calculatedData.employeeId]))
           => \A d \in calculatedData.rows :
                d.otPay = due(directory[calculatedData.employeeId], d.otHours)

\* C6: for a Fixed employee the double-pay flag is stored false by every
\* write, and a breakdown that pays the employee as Fixed adds no double pay.
C6_FixedNoDoublePay ==
  /\ \A r \in store : isFixedRate(directory[r.EmployeeId]) => ~r.IsDoublePay
  /\ (calculatedData.loaded /\ calculatedData.isFixedRate)
       => calculatedData.doublePay = RZero

\* C7: the hours fields stored on a record, totalHoursWorked and
\* overtimeHours, are never negative.
C7_HoursNeverNegative ==
  \A r \in store : ~RLt(r.TotalHoursWorked, RZero) /\ ~RLt(r.OvertimeHours, RZero)

\* C8: once a cancellation of a batch add or bulk delete has been accepted no
\* further item is issued, the step that ends the run leaves the store as it
\* is, and the result of a cancelled run gives the success count and the
\* failure count reached.
C8_CancelStopsAndReports ==
  [][\A c \in Callers :
       /\ (notice[c] = [type |-> "info", text |-> "Cancelling batch add"])
            => ~(pc[c] = "batchLoop" /\ pc'[c] = "batchAdd")
       /\ (notice[c] = [type |-> "info", text |-> "Cancelling deletion"])
            => ~(pc[c] = "bulkLoop" /\ pc'[c] = "bulkRemove")
       /\ (pc[c] \in {"batchLoop", "bulkLoop"} /\ pc'[c] = "idle") => store' = store
       /\ (pc[c] = "batchLoop" /\ pc'[c] = "idle" /\ batchAddCancelled[c])
            => /\ notice'[c].successCount = loc[c].successCount
               /\ loc[c].errorCount > 0
                    => /\ "errorCount" \in DOMAIN notice'[c]
                       /\ notice'[c].errorCount = loc[c].errorCount
       /\ (pc[c] = "bulkLoop" /\ pc'[c] = "idle" /\ bulkDeleteCancelled[c])
            => /\ notice'[c].successCount = loc[c].successCount
               /\ loc[c].failCount > 0
                    => /\ "failCount" \in DOMAIN notice'[c]
                       /\ notice'[c].failCount = loc[c].failCount]_vars

\* C9: a failing item changes nothing but its own count and the run goes on
\* to the next item; a run that was not cancelled ends only after every item
\* was attempted; and the result of every run reports the succeeded count,
\* the failed count when items failed and the skipped count when dates were
\* skipped.
C9_FailureIsPerItem ==
  [][\A c \in Callers :
       /\ (pc[c] = "batchAdd" /\ loc'[c].errorCount = loc[c].errorCount + 1)
            => store' = store /\ pc'[c] = "batchLoop"
       /\ (pc[c] = "bulkRemove" /\ loc'[c].failCount = loc[c].failCount + 1)
            => store' = store /\ pc'[c] = "bulkLoop"
       /\ (pc[c] = "batchLoop" /\ pc'[c] = "idle" /\ ~batchAddCancelled[c])
            => loc[c].successCount + loc[c].errorCount = Len(loc[c].toAdd)
       /\ (pc[c] = "bulkLoop" /\ pc'[c] = "idle" /\ ~bulkDeleteCancelled[c])
            => loc[c].successCount + loc[c].failCount = Len(loc[c].recordsToDelete)
       /\ (pc[c] = "batchLoop" /\ pc'[c] = "idle")
            => /\ notice'[c].successCount = loc[c].successCount
               /\ loc[c].errorCount > 0 => "errorCount" \in DOMAIN notice'[c]
               /\ (\E i \in 1..Len(batchPreviewDates[c].dates) :
                     batchPreviewDates[c].dates[i].skipped)
                    => "skippedCount" \in DOMAIN notice'[c]
       /\ (pc[c] = "bulkLoop" /\ pc'[c] = "idle")
            => /\ notice'[c].successCount = loc[c].successCount
               /\ loc[c].failCount > 0 => "failCount" \in DOMAIN notice'[c]]_vars

\* C10: the Perfect Attendance Bonus is 0 whenever either cutoff of the month
\* holds an Absent or Invalid record, and when it is paid it is dailyRate, the
\* period ends on day 16 or later and both cutoffs have no Absent, no Invalid
\* and as many counted days as Monday-Saturday days.
C10_PerfectAttendanceBonus ==
  LET emp == CompEmployee(directory[calculatedData.employeeId])
      days(s, e) == { BreakdownDay(r, emp) :
                        r \in fetchAttendanceForEmployee(store, calculatedData.employeeId, s, e) }
      flawed(s, e) == \E d \in days(s, e) : d.status \in {"Absent", "Invalid"}
      covered(s, e) == Cardinality({ d \in days(s, e) : d.counted })
                         >= expectedWorkingDaysIn(s, e)
      bothPerfect == /\ ~flawed(1, 15) /\ covered(1, 15)
                     /\ ~flawed(16, MonthDays) /\ covered(16, MonthDays)
  IN  calculatedData.loaded
        => /\ (flawed(1, 15) \/ flawed(16, MonthDays))
                => calculatedData.perfectAttendanceBonus = RZero
           /\ (calculatedData.perfectAttendanceBonus # RZero)
                => /\ calculatedData.perfectAttendanceBonus = calculatedData.dailyRate
                   /\ calculatedData.endDate >= 16
                   /\ bothPerfect

\* C11: whenever the exclude-all or the advance choice changes, the net pay
\* shown is total earnings minus the total deductions of the current choices
\* (contributions unless excluded, plus the planned advance deduction), and
\* the net pay of a saved payroll item is the net pay shown at that moment.
C11_NetPayRecomputedAndSavedAsShown ==
  [][/\ (calculatedData.loaded
           /\ (excludeAllDeductionsInput' # excludeAllDeductionsInput
                \/ currentAdvanceDeductionData'.deductionAmount
                     # currentAdvanceDeductionData.deductionAmount)
           /\ calculatedData'.loaded /\ calculatedData'.rows = calculatedData.rows)
          => display'.netPay =
               toFixed2(RSub(calculatedData'.totalEarnings,
                             RAdd(IF excludeAllDeductionsInput' THEN RZero
                                  ELSE calculatedData'.govtContributionsTotal,
                                  RInt(currentAdvanceDeductionData'.deductionAmount))))
     /\ (payrollItem' # payrollItem) => toFixed2(payrollItem'.netPay) = display.netPay]_vars

\* C12: while attendance is loaded and the employee has an outstanding advance,
\* the planned deduction is the full balance or nothing; it is the full balance
\* when the balance is first found; a skip leaves the outstanding balance in
\* place; and the net pay, stored and shown, is total earnings minus the
\* contributions in force minus the planned deduction, so a skipped advance
\* is not subtracted.
C12_AdvanceDeductedUnlessSkipped ==
  [][(calculatedData'.loaded /\ currentAdvanceDeductionData'.outstandingBalance > 0)
       => /\ currentAdvanceDeductionData'.deductionAmount
               \in {0, currentAdvanceDeductionData'.outstandingBalance}
          /\ currentAdvanceDeductionData.outstandingBalance = 0
               => currentAdvanceDeductionData'.deductionAmount
                    = currentAdvanceDeductionData'.outstandingBalance
          /\ (currentAdvanceDeductionData.deductionAmount > 0
              /\ currentAdvanceDeductionData'.deductionAmount = 0)
               => currentAdvanceDeductionData'.outstandingBalance
                    = currentAdvanceDeductionData.outstandingBalance
          /\ calculatedData'.netPay =
               RSub(calculatedData'.totalEarnings,
                    RAdd(IF excludeAllDeductionsInput' THEN RZero
                         ELSE calculatedData'.govtContributionsTotal,
                         RInt(currentAdvanceDeductionData'.deductionAmount)))
          /\ display'.netPay = toFixed2(calculatedData'.netPay)]_vars

\* an advance of AdvanceAmount is outstanding and skipped: the net pay shown
\* does not subtract it, and the item saved carries no advance deduction
C12_SkippedAdvanceStillOutstanding ==
  /\ calculatedData.loaded
  /\ currentAdvanceDeductionData = [outstandingBalance |-> AdvanceAmount, deductionAmount |-> 0]
  /\ ~excludeAllDeductionsInput
  /\ display.netPay = toFixed2(RSub(calculatedData.totalEarnings,
                                    calculatedData.govtContributionsTotal))
  /\ payrollItem.saved
  /\ payrollItem.salaryAdvanceDeduction = RZero
  /\ payrollItem.startDate = calculatedData.startDate

\* C13: a payroll item is saved only while the outstanding balance in hand is
\* the one the Advance Ledger holds for the employee and period; a ledger that
\* could not be read never leaves a balance of zero to save with.
C13_SaveOnlyWithLedgerBalance ==
  [][(payrollItem' # payrollItem)
       => currentAdvanceDeductionData.outstandingBalance
            = fetchEmployeeAdvances(transactions, calculatedData.employeeId,
                                    calculatedData.startDate, calculatedData.endDate,
                                    TRUE).outstandingBalance]_vars

\* C14: a payroll item saved while the calculator module is not loaded takes
\* the SSS contribution from the employee's persisted contribution record
\* (unless all deductions are excluded) and is flagged as a stale fallback.
C14_FallbackPersistedAndFlagged ==
  [][(payrollItem' # payrollItem /\ ~govContributionsLoaded)
       => /\ ~calculatedData.excludeAllDeductions
               => payrollItem'.sssContribution
                    = RInt(sssContributionRecords[calculatedData.employeeId])
          /\ "staleFallback" \in DOMAIN payrollItem']_vars

\* C15: an add or batch-add request for an employee the directory does not
\* hold, or for one whose schedule descriptor is malformed, never reaches a
\* write: no row is created for it; and a request the add form answers with
\* DuplicateRecord leaves the table as it is and starts no write.
C15_InvalidRequestsRejectedBeforeWrite ==
  [][/\ \A r \in store' \ store :
          /\ r.EmployeeId \in DOMAIN directory
          /\ LET cwh == employeesMapGet(directory, r.EmployeeId).coreWorkingHours
             IN  cwh # NoDescriptor => getScheduleSpanHours(cwh) # NullSpan
     /\ \A c \in Callers :
          (notice'[c] # notice[c] /\ notice'[c].type = "DuplicateRecord")
            => store' = store /\ pc'[c] = "idle"]_vars

\* C16: whatever day a record is looked at, a record without leave and without
\* a complete AM or PM session is shown as Absent, unless it is looked at on
\* its own date and holds a time-in, when it is shown as in progress (Working
\* being the live refinement of In Progress); both copies of the badge.
C16_NoSessionIsAbsentOrInProgress ==
  \A r \in store, today \in Dates :
    LET employee == getEmployeeById(employeesMapGet(directory, r.EmployeeId))
        noSession == /\ r.LeaveType \in {"", "None"}
                     /\ ~(Truthy(r.TimeInAM) /\ Truthy(r.TimeOutAM))
                     /\ ~(Truthy(r.TimeInPM) /\ Truthy(r.TimeOutPM))
        loneTimeIn == r.Date = today /\ (Truthy(r.TimeInAM) \/ Truthy(r.TimeInPM))
    IN  noSession
          => /\ getAttendanceStatusBadgePlain(r, employee, today)
                  = (IF loneTimeIn THEN "In Progress" ELSE "Absent")
             /\ getAttendanceStatusBadge(r, employee, today)
                  \in (IF loneTimeIn THEN {"In Progress", "Working"} ELSE {"Absent"})

C18_FirstCutJudgedByDerivedStatus ==
  (calculatedData.loaded /\ getDate(calculatedData.endDate) >= 16)
    => LET emp == CompEmployee(directory[calculatedData.employeeId])
           firstCutRecords ==
             fetchAttendanceForEmployee(store, calculatedData.employeeId,
                                        monthStart(calculatedData.endDate),
                                        monthStart(calculatedData.endDate) + 14)
       IN  (\E r \in firstCutRecords : BreakdownDay(r, emp).status \in {"Absent", "Invalid"})
             => ~FirstCutPerfect(store, calculatedData.employeeId, calculatedData.endDate)

\* C19: a breakdown loaded for a period within days 1-15 applies no SSS, no
\* PhilHealth and no Pag-IBIG share, of the employee or of the employer.
C19_FirstCutoffDefersContributions ==
  (calculatedData.loaded /\ getDate(calculatedData.endDate) <= 15)
    => /\ calculatedData.sssContribution = RZero
       /\ calculatedData.philHealthContribution = RZero
       /\ calculatedData.pagIbigContribution = RZero
       /\ calculatedData.sssEmployer = RZero
       /\ calculatedData.philHealthEmployer = RZero
       /\ calculatedData.pagIbigEmployer = RZero

\* C20: a payroll item saved while the exclude-all input is set has SSS,
\* PhilHealth, Pag-IBIG and withholding tax of 0, whatever the cutoff, and
\* carries a flag that the deductions were excluded.
C20_ExcludedDeductionsZeroAndFlagged ==
  [][(payrollItem' # payrollItem /\ excludeAllDeductionsInput)
       => /\ payrollItem'.sssContribution = RZero
          /\ payrollItem'.philHealthContribution = RZero
          /\ payrollItem'.pagIbigContribution = RZero
          /\ payrollItem'.withholdingTax = RZero
          /\ "excludeAllDeductions" \in DOMAIN payrollItem']_vars

\* C21: the program has no policy toggle for late and absent deductions, so
\* none enables them: the total deductions of a saved payroll item are its
\* four statutory figures plus the advance deduction plus other deductions,
\* and its net pay is gross pay minus that total.
C21_AbsenceNotDeductedWithoutPolicy ==
  [][(payrollItem' # payrollItem)
       => /\ payrollItem'.totalDeductions =
               RAdd(RAdd(RAdd(payrollItem'.sssContribution,
                              payrollItem'.philHealthContribution),
                         RAdd(payrollItem'.pagIbigContribution,
                              payrollItem'.withholdingTax)),
                    RAdd(payrollItem'.salaryAdvanceDeduction, payrollItem'.otherDeductions))
          /\ payrollItem'.netPay = RSub(payrollItem'.grossPay, payrollItem'.totalDeductions)]_vars

\* C22: a record whose leave type is set and is not None is On Leave wherever a
\* status is derived for it: in both dashboard badges, and in the day rows of a
\* loaded payroll breakdown, whatever its punches are.
C22_LeaveClassifiedFirst ==
  \A r \in store :
    (r.LeaveType \notin {"", "None"}) =>
      /\ \A employeeId \in DOMAIN directory :
           /\ getAttendanceStatusBadge(r, directory[employeeId], Today) = "On Leave"
           /\ getAttendanceStatusBadgePlain(r, directory[employeeId], Today) = "On Leave"
      /\ calculatedData.loaded =>
           \A d \in calculatedData.rows : (d.id = r.id) => d.status = "On Leave"

\* C23: a record without leave whose morning and afternoon sessions are both
\* complete is Short Hours when its stored total is below the daily standard
\* (weekly hours / 7) by more than 0.01 h, Overtime when above it by more than
\* 0.01 h, and Present otherwise, in the dashboard badge and in the day rows
\* of a loaded payroll breakdown (which labels Short Hours as Undertime).
C23_BothSessionsByThresholds ==
  \A r \in store :
    (/\ r.LeaveType \in {"", "None"}
     /\ Truthy(r.TimeInAM) /\ Truthy(r.TimeOutAM)
     /\ Truthy(r.TimeInPM) /\ Truthy(r.TimeOutPM)
     /\ r.EmployeeId \in DOMAIN directory) =>
      LET dailyStandardHours == Rat(StdWeek(directory[r.EmployeeId]), 7)
          tol == Rat(1, 100)
          class == IF RLt(r.TotalHoursWorked, RSub(dailyStandardHours, tol)) THEN "Short Hours"
                   ELSE IF RLt(RAdd(dailyStandardHours, tol), r.TotalHoursWorked) THEN "Overtime"
                   ELSE "Present"
      IN  /\ getAttendanceStatusBadge(r, directory[r.EmployeeId], Today) = class
          /\ calculatedData.loaded =>
               \A d \in calculatedData.rows :
                 (d.id = r.id) =>
                   d.status = (IF class = "Short Hours" THEN "Undertime" ELSE class)

\* C24: for a fixed employee the regular pay of a day is 0 when the day's
\* status is Absent or Invalid, half the daily rate when it is Half Day, and
\* the daily rate otherwise, in the rows of the monthly attendance view and in
\* the day rows of a loaded payroll breakdown.
C24_FixedRegularPayByStatus ==
  /\ \A r \in store :
       (r.EmployeeId \in DOMAIN directory /\ isFixedRate(directory[r.EmployeeId])) =>
         LET employee == directory[r.EmployeeId]
             dailyRate == Rat(employee.baseSalary, 30)
             status == getStatus(r, employee)
         IN  regularPay(r, employee) =
               (IF status \in {"Absent", "Invalid"} THEN RZero
                ELSE IF status = "Half Day" THEN RDiv(dailyRate, RInt(2))
                ELSE dailyRate)
  /\ (calculatedData.loaded /\ calculatedData.isFixedRate) =>
       \A d \in calculatedData.rows :
         d.regPay = (IF d.status \in {"Absent", "Invalid"} THEN RZero
                     ELSE IF d.status = "Half Day" THEN RDiv(calculatedData.dailyRate, RInt(2))
                     ELSE calculatedData.dailyRate)

\* C25: the total hours stored on a record whose sessions end no earlier than
\* they start are its punched minutes / 60, with exactly 60 minutes added when,
\* and only when, both sessions are present, the schedule span is known and at
\* least the daily standard (weekly hours / 7), and the punched hours are below
\* the daily standard.
C25_LunchHourAddedIffHeuristic ==
  \A r \in store :
    (/\ r.EmployeeId \in DOMAIN directory
     /\ r.LeaveType \in {"", "None"}
     /\ r.TimeOutAM >= r.TimeInAM /\ r.TimeOutPM >= r.TimeInPM) =>
      LET employee == directory[r.EmployeeId]
          p == RowPunches(r)
          dailyStandardHours == Rat(StdWeek(employee), 7)
          scheduleSpan == getScheduleSpanHours(employee.coreWorkingHours)
          rawMinutes == FormMinutes(p)
          addLunch == /\ hasAM(p) /\ hasPM(p)
                      /\ scheduleSpan # NullSpan
                      /\ RLe(dailyStandardHours, scheduleSpan)
                      /\ RLt(Rat(rawMinutes, 60), dailyStandardHours)
      IN  r.TotalHoursWorked = Rat(IF addLunch THEN rawMinutes + 60 ELSE rawMinutes, 60)

\* C26: at most one invocation of saveClockRecord is pending at any time.
C26_AtMostOneSaveInFlight ==
  Cardinality({ i \in Invocations : kpc[i] # "idle" }) <= 1

\* C27: a punch slot of a record that holds a value is never changed by a
\* save of the kiosk.
C27_FilledSlotNeverChanged ==
  [][\A r \in store : \A x \in store' :
       (x.id = r.id) =>
         \A actionType \in ActionTypes :
           Truthy(GetSlot(r, actionType)) => GetSlot(x, actionType) = GetSlot(r, actionType)]_vars

\* C30: every invocation of saveClockRecord that has set isSaving ends, and
\* at its end isSaving is false: after a success, after the duplicate-slot
\* warning and after a store error.
C30_SavingFlagEventuallyReset ==
  \A i \in Invocations : (kpc[i] # "idle") ~> (kpc[i] = "idle" /\ ~isSaving)

\* C30 witness: a save has ended with the duplicate-slot warning and the flag
\* is down again
C30_DuplicateWarningShownFlagReset ==
  /\ knotice.type = "DuplicateWarning"
  /\ ~isSaving
  /\ \A i \in Invocations : kpc[i] = "idle"

\* C28: once no load and no delayed close is pending, the totals held for
\* saving are those of the employee and period the modal was last asked for;
\* and the delayed close of a save discards no totals but those it saved.
C28_LatestRequestWins ==
  [][/\ (pendingLoads' = {} /\ ~pendingClose' /\ calculatedData'.loaded)
          => /\ calculatedData'.employeeId = currentBreakdownContext'.employeeId
             /\ calculatedData'.startDate = currentBreakdownContext'.startDate
             /\ calculatedData'.endDate = currentBreakdownContext'.endDate
     /\ (pendingClose /\ ~pendingClose' /\ calculatedData.loaded)
          => /\ calculatedData.employeeId = payrollItem.employeeId
             /\ calculatedData.startDate = payrollItem.startDate
             /\ calculatedData.endDate = payrollItem.endDate]_vars

\* C29: every leave balance stays between 0 and the balance the employee
\* started with, and is back at the starting balance whenever no record of
\* the employee carries that leave type.
C29_LeaveBalanceConserved ==
  \A e \in DOMAIN leaveDays : \A t \in LeaveTypes :
    /\ leaveDays[e][t] >= 0
    /\ leaveDays[e][t] <= directory[e].leaveDays[t]
    /\ (~\E r \in store : r.EmployeeId = e /\ r.LeaveType = t)
         => leaveDays[e][t] = directory[e].leaveDays[t]

====
